---- MODULE Spec2Model ----
(***************************************************************************)
(* The strobe vision sidecar: the line-delimited JSON protocol server      *)
(* (strobe_vision/server.py), the OmniParser detection pipeline and its    *)
(* lazily loaded backends (strobe_vision/omniparser.py), the model asset   *)
(* resolver and device selection (strobe_vision/models.py) and the         *)
(* protocol types (strobe_vision/protocol.py).                             *)
(*                                                                         *)
(* One step of Spec is one iteration of the `for line in sys.stdin` loop   *)
(* of main(): the line is read, parsed, dispatched, and its response (if   *)
(* any) is written and flushed.  The detector (YOLO), the captioner        *)
(* (Florence-2), the file system holding the model assets and the clock    *)
(* are the environment: what they return is chosen nondeterministically.   *)
(*                                                                         *)
(* SuppressSpec calls the overlap suppressor on its own, on every list of  *)
(* candidate boxes and every threshold of a bounded family.                *)
(***************************************************************************)
EXTENDS Integers, Sequences, FiniteSets, TLC

VARIABLES
    assets,             \* environment: what the model asset files allow load() to do
    mps_available,      \* environment: torch.backends.mps.is_available()
    cuda_available,     \* environment: torch.cuda.is_available()
    pc,                 \* where the process is: "start", "loop", "eof", "crashed",
                        \* "exit1"; for a function called on its own, where the
                        \* call is: "call", "returned", "again"
    device,             \* main(): device = select_device()
    parser,             \* the OmniParser instance of main()
    stdin_read,         \* the lines main() has taken from sys.stdin so far
    stdout,             \* the response lines written (and flushed) to sys.stdout
    trace,              \* what the last loop iteration did (observation only)
    call,               \* a function called on its own: the call's arguments
    returned            \* a function called on its own: what the call returned

vars == <<assets, mps_available, cuda_available, pc, device, parser,
          stdin_read, stdout, trace, call, returned>>

\* the two variables of a function called on its own, which main() leaves alone
UnitCall == <<call, returned>>
NoCall == [function |-> "none"]

(***************************************************************************)
(* Bounds of the model.                                                    *)
(***************************************************************************)
MaxLines == 2           \* lines taken from stdin in one run
MaxBoxes == 3           \* candidate boxes handed to the overlap suppressor
MaxCalls == 3           \* calls made on one OmniParser object
MaxCaption == 4         \* characters of the texts _caption_crop is called on
MaxCoord == 3           \* largest coordinate of the boxes _compute_iou is called on

(***************************************************************************)
(* Program constants.                                                      *)
(***************************************************************************)
MAX_IMAGE_SIZE == 50 * 1024 * 1024      \* omniparser.py: 50MB base64 limit
MAX_PIXELS == 3840 * 2160               \* omniparser.py: 4K limit
DefaultConfidence == 300                \* protocol.py: 0.3, in thousandths
DefaultIou == 500                       \* protocol.py: 0.5, in thousandths

None == "None"                          \* Python's None
Absent == "<absent>"                    \* a key the JSON object does not have
NoOption == -1                          \* an option the JSON object does not have

(***************************************************************************)
(* str(n) and the f-strings of the error messages.                         *)
(***************************************************************************)
Digit(d) ==
    CASE d = 0 -> "0" [] d = 1 -> "1" [] d = 2 -> "2" [] d = 3 -> "3"
      [] d = 4 -> "4" [] d = 5 -> "5" [] d = 6 -> "6" [] d = 7 -> "7"
      [] d = 8 -> "8" [] d = 9 -> "9"

RECURSIVE Str(_)
Str(n) == IF n < 10 THEN Digit(n) ELSE Str(n \div 10) \o Digit(n % 10)

\* omniparser.py: f"Image too large: {len(image_b64)} bytes exceeds 50MB limit"
SizeMessage(n) == "Image too large: " \o Str(n) \o " bytes exceeds 50MB limit"

\* omniparser.py: f"Image too large: {image.width}x{image.height} exceeds 4K limit"
DimensionMessage(w, h) ==
    "Image too large: " \o Str(w) \o "x" \o Str(h) \o " exceeds 4K limit"

\* server.py: f"Invalid JSON: {e}"
InvalidJsonMessage(cause) == "Invalid JSON: " \o cause

\* the message does not name the type
UnknownTypeMessage_Generic(req_type) == "Unknown request type"

\* server.py: f"Unknown request type: {req_type}"
UnknownTypeMessage(req_type) == "Unknown request type: " \o req_type

\* str(KeyError(k)) is the repr of the key
KeyErrorMessage(k) == "'" \o k \o "'"

\* str(e) of the AttributeError x.get raises on a value x of type pytype that
\* is no dict
NoGetMessage(pytype) == "'" \o pytype \o "' object has no attribute 'get'"

(***************************************************************************)
(* protocol.py: the response dataclasses, as to_json() serialises them     *)
(* (asdict keeps every field).  `line` is not a field of the response: it  *)
(* records which input line the response was written for.                  *)
(***************************************************************************)
ErrorResponse(id, message, k) ==
    [id |-> id, type |-> "error", message |-> message, line |-> k]

PongResponse(id, models_loaded, dev, k) ==
    [id |-> id, type |-> "pong", models_loaded |-> models_loaded,
     device |-> dev, line |-> k]

DetectResponse(id, elements, latency_ms, k) ==
    [id |-> id, type |-> "result", elements |-> elements,
     latency_ms |-> latency_ms, line |-> k]

DetectedElement(label, description, confidence, bounds) ==
    [label |-> label, description |-> description,
     confidence |-> confidence, bounds |-> bounds]

(***************************************************************************)
(* models.py                                                               *)
(***************************************************************************)
select_device(mps, cuda) ==
    IF mps THEN "mps" ELSE IF cuda THEN "cuda" ELSE "cpu"

(***************************************************************************)
(* Text: a str is modelled as the sequence of its characters, so that      *)
(* strip(), split() and lower() are computed and not assumed.  A character *)
(* is written as itself when it is printable ASCII (the backquote apart,  *)
(* which a TLA+ string cannot hold) or one of \t \n \r \f, and otherwise   *)
(* as the six-character escape \uXXXX of JSON ("\\u00a0"); the texts of    *)
(* the model are over ASCII and Latin-1 and the other characters           *)
(* str.isspace() holds for.                                                *)
(***************************************************************************)
\* the characters str.strip() removes and str.split() separates at: all
\* characters c of Unicode with c.isspace()
Whitespace ==
    { "\t", "\n", "\\u000b", "\f", "\r", "\\u001c",
      "\\u001d", "\\u001e", "\\u001f", " ", "\\u0085", "\\u00a0",
      "\\u1680", "\\u2000", "\\u2001", "\\u2002", "\\u2003", "\\u2004",
      "\\u2005", "\\u2006", "\\u2007", "\\u2008", "\\u2009", "\\u200a",
      "\\u2028", "\\u2029", "\\u202f", "\\u205f", "\\u3000" }

IsSpace(c) == c \in Whitespace

\* the characters of ASCII and Latin-1 that str.lower() changes, and what it
\* changes each into
UpperCase ==
    <<"A", "B", "C", "D", "E", "F", "G", "H",
      "I", "J", "K", "L", "M", "N", "O", "P",
      "Q", "R", "S", "T", "U", "V", "W", "X",
      "Y", "Z", "\\u00c0", "\\u00c1", "\\u00c2", "\\u00c3", "\\u00c4", "\\u00c5",
      "\\u00c6", "\\u00c7", "\\u00c8", "\\u00c9", "\\u00ca", "\\u00cb", "\\u00cc", "\\u00cd",
      "\\u00ce", "\\u00cf", "\\u00d0", "\\u00d1", "\\u00d2", "\\u00d3", "\\u00d4", "\\u00d5",
      "\\u00d6", "\\u00d8", "\\u00d9", "\\u00da", "\\u00db", "\\u00dc", "\\u00dd", "\\u00de">>

LowerCase ==
    <<"a", "b", "c", "d", "e", "f", "g", "h",
      "i", "j", "k", "l", "m", "n", "o", "p",
      "q", "r", "s", "t", "u", "v", "w", "x",
      "y", "z", "\\u00e0", "\\u00e1", "\\u00e2", "\\u00e3", "\\u00e4", "\\u00e5",
      "\\u00e6", "\\u00e7", "\\u00e8", "\\u00e9", "\\u00ea", "\\u00eb", "\\u00ec", "\\u00ed",
      "\\u00ee", "\\u00ef", "\\u00f0", "\\u00f1", "\\u00f2", "\\u00f3", "\\u00f4", "\\u00f5",
      "\\u00f6", "\\u00f8", "\\u00f9", "\\u00fa", "\\u00fb", "\\u00fc", "\\u00fd", "\\u00fe">>

\* str.lower() of one character
Lower(c) ==
    IF \E i \in 1..Len(UpperCase) : UpperCase[i] = c
    THEN LowerCase[CHOOSE i \in 1..Len(UpperCase) : UpperCase[i] = c]
    ELSE c

RECURSIVE LStrip(_)
LStrip(t) == IF t # <<>> /\ IsSpace(Head(t)) THEN LStrip(Tail(t)) ELSE t

RECURSIVE RStrip(_)
RStrip(t) ==
    IF t # <<>> /\ IsSpace(t[Len(t)]) THEN RStrip(SubSeq(t, 1, Len(t) - 1)) ELSE t

\* str.strip()
Strip(t) == RStrip(LStrip(t))

\* the first whitespace-delimited run of t, t not starting with whitespace
RECURSIVE FirstRun(_)
FirstRun(t) ==
    IF t = <<>> \/ IsSpace(Head(t)) THEN <<>> ELSE <<Head(t)>> \o FirstRun(Tail(t))

\* str.split(): the whitespace-delimited tokens, none of them empty
RECURSIVE Split(_)
Split(t) ==
    LET u == LStrip(t)
        w == FirstRun(u)
    IN  IF u = <<>> THEN <<>>
        ELSE <<w>> \o Split(SubSeq(u, Len(w) + 1, Len(u)))

\* str.lower()
LowerText(t) == [i \in 1..Len(t) |-> Lower(t[i])]

\* the characters of t joined into one string, as json.dumps writes them
RECURSIVE Join(_)
Join(t) == IF t = <<>> THEN "" ELSE Head(t) \o Join(Tail(t))

(***************************************************************************)
(* omniparser.py: geometry.  A coordinate is a float; the model keeps it   *)
(* in half pixels (3 is 1.5), so an area is in quarter pixels.  A quotient *)
(* q / (d + 1e-6) is kept as the pair <<q, d>>.                            *)
(***************************************************************************)
Max(a, b) == IF a >= b THEN a ELSE b
Min(a, b) == IF a <= b THEN a ELSE b

\* int(x) of a float x >= 0 kept in half pixels
ToInt(x) == x \div 2

Area(b) == (b[3] - b[1]) * (b[4] - b[2])

\* q1/(d1 + 1e-6) >= q2/(d2 + 1e-6), for q, d >= 0
QuotientGeq(r, s) ==
    \/ r[1] * s[2] > s[1] * r[2]
    \/ r[1] * s[2] = s[1] * r[2] /\ r[1] >= s[1]

QuotientMax(r, s) == IF QuotientGeq(r, s) THEN r ELSE s

\* the intersection over the second box's area is left out
_compute_iou_WithoutRatio2(box1, box2) ==
    LET x1 == Max(box1[1], box2[1])
        y1 == Max(box1[2], box2[2])
        x2 == Min(box1[3], box2[3])
        y2 == Min(box1[4], box2[4])
        intersection == Max(0, x2 - x1) * Max(0, y2 - y1)
        area1 == Area(box1)
        area2 == Area(box2)
        union == area1 + area2 - intersection
        iou == <<intersection, union>>
        ratio1 == <<intersection, area1>>
    IN  QuotientMax(iou, ratio1)

\* OmniParser._compute_iou: max(iou, ratio1, ratio2)
_compute_iou(box1, box2) ==
    LET x1 == Max(box1[1], box2[1])
        y1 == Max(box1[2], box2[2])
        x2 == Min(box1[3], box2[3])
        y2 == Min(box1[4], box2[4])
        intersection == Max(0, x2 - x1) * Max(0, y2 - y1)
        area1 == Area(box1)
        area2 == Area(box2)
        union == area1 + area2 - intersection
        iou == <<intersection, union>>
        ratio1 == <<intersection, area1>>
        ratio2 == <<intersection, area2>>
    IN  QuotientMax(QuotientMax(iou, ratio1), ratio2)

\* the comparison with the threshold is >=
Exceeds_Geq(r, threshold) ==
    IF threshold < 0 THEN TRUE ELSE r[1] * 1000 >= threshold * r[2]

\* q/(d + 1e-6) > t/1000 for a threshold t in thousandths, q >= 0 and d >= 0.
\* For 0 <= t <= 1000, q*1000 and t*d are integers and 0 <= t*1e-6 < 1, so
\* q*1000 > t*d + t*1e-6 exactly when q*1000 > t*d; a quotient, which is never
\* negative, exceeds every negative t
Exceeds(r, threshold) ==
    IF threshold < 0 THEN TRUE ELSE r[1] * 1000 > threshold * r[2]

(***************************************************************************)
(* omniparser.py: overlap suppression.  A detector box is                  *)
(* [xyxy |-> <<x1, y1, x2, y2>>, conf |-> c], c in ten-thousandths.         *)
(***************************************************************************)
BoxEntry(box) == [xyxy |-> box.xyxy, conf |-> box.conf, area |-> Area(box.xyxy)]

\* the inner loop never looks at the last box of the list
RECURSIVE InnerLoop_SkipsLastBox(_, _, _, _)
InnerLoop_SkipsLastBox(box_list, i, j, iou_threshold) ==
    IF j >= Len(box_list) THEN TRUE
    ELSE LET b1 == box_list[i]
             b2 == box_list[j]
         IN  IF /\ i # j
                /\ Exceeds(_compute_iou(b1.xyxy, b2.xyxy), iou_threshold)
                /\ b1.area > b2.area
             THEN FALSE
             ELSE InnerLoop_SkipsLastBox(box_list, i, j + 1, iou_threshold)

\* the smaller box of an overlapping pair is the one made invalid
RECURSIVE InnerLoop_DropsSmaller(_, _, _, _)
InnerLoop_DropsSmaller(box_list, i, j, iou_threshold) ==
    IF j > Len(box_list) THEN TRUE
    ELSE LET b1 == box_list[i]
             b2 == box_list[j]
         IN  IF /\ i # j
                /\ Exceeds(_compute_iou(b1.xyxy, b2.xyxy), iou_threshold)
                /\ b1.area < b2.area
             THEN FALSE
             ELSE InnerLoop_DropsSmaller(box_list, i, j + 1, iou_threshold)

\* a box is made invalid by an overlapping box of the same area too
RECURSIVE InnerLoop_AreaGeq(_, _, _, _)
InnerLoop_AreaGeq(box_list, i, j, iou_threshold) ==
    IF j > Len(box_list) THEN TRUE
    ELSE LET b1 == box_list[i]
             b2 == box_list[j]
         IN  IF /\ i # j
                /\ Exceeds(_compute_iou(b1.xyxy, b2.xyxy), iou_threshold)
                /\ b1.area >= b2.area
             THEN FALSE
             ELSE InnerLoop_AreaGeq(box_list, i, j + 1, iou_threshold)

\* the break is one level out: the loop stops at the first box that overlaps
\* b1, whatever its area
RECURSIVE InnerLoop_BreaksOnFirstOverlap(_, _, _, _)
InnerLoop_BreaksOnFirstOverlap(box_list, i, j, iou_threshold) ==
    IF j > Len(box_list) THEN TRUE
    ELSE LET b1 == box_list[i]
             b2 == box_list[j]
         IN  IF i # j /\ Exceeds(_compute_iou(b1.xyxy, b2.xyxy), iou_threshold)
             THEN ~(b1.area > b2.area)
             ELSE InnerLoop_BreaksOnFirstOverlap(box_list, i, j + 1, iou_threshold)

\* the box of lower confidence is the one made invalid, as in plain NMS
RECURSIVE InnerLoop_DropsLowerConfidence(_, _, _, _)
InnerLoop_DropsLowerConfidence(box_list, i, j, iou_threshold) ==
    IF j > Len(box_list) THEN TRUE
    ELSE LET b1 == box_list[i]
             b2 == box_list[j]
         IN  IF /\ i # j
                /\ Exceeds(_compute_iou(b1.xyxy, b2.xyxy), iou_threshold)
                /\ b1.conf < b2.conf
             THEN FALSE
             ELSE InnerLoop_DropsLowerConfidence(box_list, i, j + 1, iou_threshold)

\* the inner loop over j for box i: FALSE as soon as a box makes b1 invalid (break)
RECURSIVE InnerLoop(_, _, _, _)
InnerLoop(box_list, i, j, iou_threshold) ==
    IF j > Len(box_list) THEN TRUE
    ELSE LET b1 == box_list[i]
             b2 == box_list[j]
         IN  IF /\ i # j
                /\ Exceeds(_compute_iou(b1.xyxy, b2.xyxy), iou_threshold)
                /\ b1.area > b2.area
             THEN FALSE
             ELSE InnerLoop(box_list, i, j + 1, iou_threshold)

\* a valid box is inserted at the head of filtered
RECURSIVE OuterLoop_Prepends(_, _, _)
OuterLoop_Prepends(box_list, i, iou_threshold) ==
    IF i > Len(box_list) THEN <<>>
    ELSE OuterLoop_Prepends(box_list, i + 1, iou_threshold)
         \o (IF InnerLoop(box_list, i, 1, iou_threshold) THEN <<box_list[i]>> ELSE <<>>)

\* the outer loop over i, from box i on
RECURSIVE OuterLoop(_, _, _)
OuterLoop(box_list, i, iou_threshold) ==
    IF i > Len(box_list) THEN <<>>
    ELSE (IF InnerLoop(box_list, i, 1, iou_threshold) THEN <<box_list[i]>> ELSE <<>>)
         \o OuterLoop(box_list, i + 1, iou_threshold)

\* OmniParser._remove_overlap
_remove_overlap(boxes, iou_threshold) ==
    OuterLoop([k \in 1..Len(boxes) |-> BoxEntry(boxes[k])], 1, iou_threshold)

(***************************************************************************)
(* omniparser.py: captioning.  What Florence-2 does for one crop is the    *)
(* environment's choice: it raises, or generates a text.                   *)
(***************************************************************************)
Generated(text) == [raises |-> FALSE, text |-> text]
CaptionRaises == [raises |-> TRUE, text |-> <<>>]

\* a failed caption is labelled "unknown"
_caption_crop_Unknown(outcome) ==
    IF outcome.raises THEN <<"unknown", "">>
    ELSE LET caption == Strip(outcome.text)
             parts == Split(caption)
             label == IF parts # <<>> THEN Join(LowerText(parts[1])) ELSE "icon"
         IN  <<label, Join(caption)>>

\* the first token is taken as it is, not lowercased
_caption_crop_KeepsCase(outcome) ==
    IF outcome.raises THEN <<"icon", "">>
    ELSE LET caption == Strip(outcome.text)
             parts == Split(caption)
             label == IF parts # <<>> THEN Join(parts[1]) ELSE "icon"
         IN  <<label, Join(caption)>>

\* OmniParser._caption_crop: <<label, description>>
_caption_crop(outcome) ==
    IF outcome.raises THEN <<"icon", "">>
    ELSE LET caption == Strip(outcome.text)
             parts == Split(caption)
             label == IF parts # <<>> THEN Join(LowerText(parts[1])) ELSE "icon"
         IN  <<label, Join(caption)>>

\* the confidence is cut after three decimals
Round3_Truncates(conf) == conf \div 10

\* 2^n mod 625
RECURSIVE Pow2Mod625(_)
Pow2Mod625(n) == IF n = 0 THEN 1 ELSE (2 * Pow2Mod625(n - 1)) % 625

\* the least s >= from with conf * 2^s >= 10000, for conf in 1..10000: the
\* float nearest to conf/10000 has the binary exponent -s
RECURSIVE Shift(_, _)
Shift(conf, from) == IF conf >= 10000 THEN from ELSE Shift(2 * conf, from + 1)

\* box.conf[0] is a float32 and float() of it has the same value.  The model
\* keeps a confidence as the number conf of ten-thousandths it is nearest to;
\* the float32 itself is conf/10000 only when 625 divides conf, and is below
\* (-1) or above (1) it otherwise.  Its 24-bit significand is
\* conf * 2^(19 + s) / 625 rounded to the nearest integer.
Float32Side(conf) ==
    IF conf = 0 THEN 0
    ELSE LET rest == ((conf % 625) * Pow2Mod625(19 + Shift(conf, 0))) % 625
         IN  IF rest = 0 THEN 0 ELSE IF 2 * rest < 625 THEN -1 ELSE 1

\* round(conf, 3): conf in ten-thousandths, the result in thousandths.  round
\* is correctly rounded on the float's own value, a tie going to the even
\* thousandth
Round3(conf) ==
    IF conf % 10 # 5 THEN (conf + 5) \div 10
    ELSE CASE Float32Side(conf) = -1 -> conf \div 10
           [] Float32Side(conf) = 1 -> conf \div 10 + 1
           [] OTHER -> IF (conf \div 10) % 2 = 0 THEN conf \div 10
                       ELSE conf \div 10 + 1

\* the body of `for box_data in filtered`, from box k on; captions[k] is what the
\* captioner does at its k-th call
RECURSIVE Elements(_, _, _)
Elements(filtered, captions, k) ==
    IF k > Len(filtered) THEN <<>>
    ELSE LET box_data == filtered[k]
             x1 == box_data.xyxy[1]
             y1 == box_data.xyxy[2]
             x2 == box_data.xyxy[3]
             y2 == box_data.xyxy[4]
             cap == _caption_crop(captions[k])
             label == cap[1]
             description == cap[2]
         IN  <<DetectedElement(
                 IF label # "" THEN label ELSE "icon",
                 IF description # "" THEN description ELSE "",
                 Round3(box_data.conf),
                 [x |-> ToInt(x1), y |-> ToInt(y1),
                  w |-> ToInt(x2 - x1), h |-> ToInt(y2 - y1)])>>
             \o Elements(filtered, captions, k + 1)

(***************************************************************************)
(* omniparser.py: the OmniParser object and load().                        *)
(* assets says how far load() gets:                                        *)
(*   "missing"     models_dir() finds no directory and calls sys.exit(1)   *)
(*   "no_detector" the directory exists, YOLO(yolo_path) raises            *)
(*   "no_caption"  YOLO and the processor load, the caption model raises   *)
(*   "ok"          everything loads                                        *)
(***************************************************************************)
Assets == {"missing", "no_detector", "no_caption", "ok"}

\* OmniParser.__init__
OmniParser(dev) ==
    [device |-> dev, yolo_model |-> None, caption_model |-> None,
     caption_processor |-> None, _loaded |-> FALSE]

\* models.py: models_dir(), TRUE when it returns a directory; otherwise it
\* calls sys.exit(1)
models_dir(a) == a # "missing"

\* OmniParser.is_loaded
is_loaded(self) == self._loaded

\* load() never sets the loaded flag
load_ForgetsFlag(self, a) ==
    IF ~models_dir(a)
    THEN [self |-> self, outcome |-> "exit", message |-> "1", ran |-> TRUE]
    ELSE IF a = "no_detector"
    THEN [self |-> self, outcome |-> "raise",
          message |-> "No such file or directory: icon_detect/model.pt", ran |-> TRUE]
    ELSE IF a = "no_caption"
    THEN [self |-> [self EXCEPT !.yolo_model = "YOLO",
                                !.caption_processor = "AutoProcessor"],
          outcome |-> "raise",
          message |-> "icon_caption is not a valid model identifier", ran |-> TRUE]
    ELSE [self |-> [self EXCEPT !.yolo_model = "YOLO",
                                !.caption_processor = "AutoProcessor",
                                !.caption_model = "AutoModelForCausalLM"],
          outcome |-> "return", message |-> "", ran |-> TRUE]

\* load() does not look at the loaded flag: it loads again every time
load_AlwaysLoads(self, a) ==
    IF ~models_dir(a)
    THEN [self |-> self, outcome |-> "exit", message |-> "1", ran |-> TRUE]
    ELSE IF a = "no_detector"
    THEN [self |-> self, outcome |-> "raise",
          message |-> "No such file or directory: icon_detect/model.pt", ran |-> TRUE]
    ELSE IF a = "no_caption"
    THEN [self |-> [self EXCEPT !.yolo_model = "YOLO",
                                !.caption_processor = "AutoProcessor"],
          outcome |-> "raise",
          message |-> "icon_caption is not a valid model identifier", ran |-> TRUE]
    ELSE [self |-> [self EXCEPT !.yolo_model = "YOLO",
                                !.caption_processor = "AutoProcessor",
                                !.caption_model = "AutoModelForCausalLM",
                                !._loaded = TRUE],
          outcome |-> "return", message |-> "", ran |-> TRUE]

\* OmniParser.load.  outcome: "return", "raise" (an Exception) or "exit"
\* (SystemExit, which is a BaseException and not an Exception)
load(self, a) ==
    IF self._loaded
    THEN [self |-> self, outcome |-> "return", message |-> "", ran |-> FALSE]
    ELSE IF ~models_dir(a)
    THEN [self |-> self, outcome |-> "exit", message |-> "1", ran |-> TRUE]
    ELSE IF a = "no_detector"
    THEN [self |-> self, outcome |-> "raise",
          message |-> "No such file or directory: icon_detect/model.pt", ran |-> TRUE]
    ELSE IF a = "no_caption"
    THEN [self |-> [self EXCEPT !.yolo_model = "YOLO",
                                !.caption_processor = "AutoProcessor"],
          outcome |-> "raise",
          message |-> "icon_caption is not a valid model identifier", ran |-> TRUE]
    ELSE [self |-> [self EXCEPT !.yolo_model = "YOLO",
                                !.caption_processor = "AutoProcessor",
                                !.caption_model = "AutoModelForCausalLM",
                                !._loaded = TRUE],
          outcome |-> "return", message |-> "", ran |-> TRUE]

(***************************************************************************)
(* omniparser.py: OmniParser.detect.                                       *)
(* image is the value under "image":                                       *)
(*   [present, pytype, len, text, is_image, width, height]                 *)
(* pytype is the type of the value ("str" for a JSON string), len is what  *)
(* len() gives for it, text is the string as runs of characters of one     *)
(* class, and is_image, width and height say what Image.open makes of the  *)
(* bytes the string decodes to.                                            *)
(* yolo is what the detector does when called: [raises, message, results], *)
(* results a list of result objects [boxes |-> <<box, ...>>].              *)
(* Next to what detect returns or raises, the record says what the call    *)
(* did: whether load() ran, the detector calls and whether the detector    *)
(* raised, the boxes the detector returned, the boxes the element loop     *)
(* went over, and what the captioner did at each of its calls.             *)
(***************************************************************************)
\* len(image_b64) of a value that has no length
NoLenTypes == {"NoneType", "bool", "int", "float"}
NoLenMessage(pytype) == "object of type '" \o pytype \o "' has no len()"

\* base64.b64decode of a value that is neither bytes nor a string
NotBytesMessage(pytype) ==
    "argument should be a bytes-like object or ASCII string, not '" \o pytype \o "'"

\* base64.b64decode of a string with a character beyond ASCII
NotAsciiMessage == "string argument should contain only ASCII characters"

\* binascii.Error of a text that ends inside a group of four characters
IncorrectPadding == "Incorrect padding"
DataCharactersMessage(n) ==
    "Invalid base64-encoded string: number of data characters (" \o Str(n)
        \o ") cannot be 1 more than a multiple of 4"

\* the bytes written for ndata characters of the alphabet
DecodedBytes(ndata) ==
    (ndata \div 4) * 3 + (IF ndata % 4 = 2 THEN 1 ELSE IF ndata % 4 = 3 THEN 2 ELSE 0)

Decoded == [raises |-> FALSE, message |-> ""]
DecodeRaises(message) == [raises |-> TRUE, message |-> message]

(***************************************************************************)
(* binascii.a2b_base64 without strict mode, which base64.b64decode calls:  *)
(* characters outside the alphabet are skipped, a character of the         *)
(* alphabet resets the count of pads, and a pad that completes a group of  *)
(* four ends the decoding, whatever follows.  runs[i] is the run being     *)
(* read, quad_pos the position in the group of four, pads the pads counted *)
(* since the last character of the alphabet, ndata the characters of the   *)
(* alphabet read so far.                                                   *)
(***************************************************************************)
RECURSIVE a2b_base64(_, _, _, _, _)
a2b_base64(runs, i, quad_pos, pads, ndata) ==
    IF i > Len(runs)
    THEN IF quad_pos = 0 THEN Decoded
         ELSE IF quad_pos = 1
         THEN DecodeRaises(DataCharactersMessage((DecodedBytes(ndata) \div 3) * 4 + 1))
         ELSE DecodeRaises(IncorrectPadding)
    ELSE IF runs[i].count = 0
    THEN a2b_base64(runs, i + 1, quad_pos, pads, ndata)
    ELSE IF runs[i].class = "pad"
    THEN IF quad_pos >= 2 /\ quad_pos + pads + runs[i].count >= 4
         THEN Decoded
         ELSE a2b_base64(runs, i + 1, quad_pos,
                         IF quad_pos >= 2 THEN pads + runs[i].count ELSE pads, ndata)
    ELSE IF runs[i].class = "data"
    THEN a2b_base64(runs, i + 1, (quad_pos + runs[i].count) % 4, 0,
                    ndata + runs[i].count)
    ELSE a2b_base64(runs, i + 1, quad_pos, pads, ndata)

\* base64.b64decode(image_b64)
b64decode(image) ==
    IF image.pytype # "str"
    THEN DecodeRaises(NotBytesMessage(image.pytype))
    ELSE IF \E i \in 1..Len(image.text) :
                image.text[i].class = "nonascii" /\ image.text[i].count > 0
    THEN DecodeRaises(NotAsciiMessage)
    ELSE a2b_base64(image.text, 1, 0, 0, 0)

\* Image.open(io.BytesIO(img_bytes)) of bytes that are no image; the text the
\* library gives goes on with the repr of the stream, which has an address
UnidentifiedMessage == "cannot identify image file"

\* a failure inside detect is swallowed: the call returns an empty element list
Raised_ReturnsEmpty(self, message, load_ran, yolo_calls, yolo_args) ==
    [self |-> self, outcome |-> "return", message |-> "", elements |-> <<>>,
     load_ran |-> load_ran, yolo_calls |-> yolo_calls, yolo_args |-> yolo_args,
     yolo_raised |-> FALSE, detected |-> <<>>, filtered |-> <<>>,
     caption_calls |-> 0, caption_outcomes |-> <<>>]

\* what detect leaves when it raises Exception(message)
Raised(self, message, load_ran, yolo_calls, yolo_args) ==
    [self |-> self, outcome |-> "raise", message |-> message, elements |-> <<>>,
     load_ran |-> load_ran, yolo_calls |-> yolo_calls, yolo_args |-> yolo_args,
     yolo_raised |-> FALSE, detected |-> <<>>, filtered |-> <<>>,
     caption_calls |-> 0, caption_outcomes |-> <<>>]

detect(self, image, confidence_threshold, iou_threshold, a, yolo, captions) ==
    LET loading == load(self, a)
        me == loading.self
        args == <<confidence_threshold, iou_threshold>>
    IN  IF loading.outcome # "return"
        THEN [Raised(me, loading.message, loading.ran, 0, <<>>)
                EXCEPT !.outcome = loading.outcome]
        ELSE IF image.pytype \in NoLenTypes
        THEN Raised(me, NoLenMessage(image.pytype), loading.ran, 0, <<>>)
        ELSE IF image.len > MAX_IMAGE_SIZE
        THEN Raised(me, SizeMessage(image.len), loading.ran, 0, <<>>)
        ELSE IF b64decode(image).raises
        THEN Raised(me, b64decode(image).message, loading.ran, 0, <<>>)
        ELSE IF ~image.is_image
        THEN Raised(me, UnidentifiedMessage, loading.ran, 0, <<>>)
        ELSE IF image.width * image.height > MAX_PIXELS
        THEN Raised(me, DimensionMessage(image.width, image.height),
                    loading.ran, 0, <<>>)
        ELSE IF yolo.raises
        THEN [Raised(me, yolo.message, loading.ran, 1, args)
                EXCEPT !.yolo_raised = TRUE]
        ELSE LET results == yolo.results
                 filtered == IF Len(results) > 0
                             THEN _remove_overlap(results[1].boxes, iou_threshold)
                             ELSE <<>>
             IN  [self |-> me, outcome |-> "return", message |-> "",
                  elements |-> Elements(filtered, captions, 1),
                  load_ran |-> loading.ran, yolo_calls |-> 1, yolo_args |-> args,
                  yolo_raised |-> FALSE,
                  detected |-> IF Len(results) > 0 THEN results[1].boxes ELSE <<>>,
                  filtered |-> filtered,
                  caption_calls |-> Len(filtered),
                  caption_outcomes |-> SubSeq(captions, 1, Len(filtered))]

(***************************************************************************)
(* protocol.py: DetectRequest.from_json.  data is the parsed JSON object   *)
(*   [isdict, id, type, image, options]                                    *)
(* options is [present, pytype, confidence_threshold, iou_threshold]:      *)
(* pytype is the type of the value under "options", which need not be a    *)
(* dict, and opts.get raises AttributeError when it is not.                *)
(* with Absent for a missing id or type, image.present = FALSE for a       *)
(* missing image, and options.present = FALSE for missing options.         *)
(***************************************************************************)
\* the two defaults are exchanged
from_json_DefaultsExchanged(data) ==
    LET opts == data.options
        confidence == IF opts.present /\ opts.confidence_threshold # NoOption
                      THEN opts.confidence_threshold ELSE DefaultIou
        iou == IF opts.present /\ opts.iou_threshold # NoOption
               THEN opts.iou_threshold ELSE DefaultConfidence
    IN  IF data.id = Absent THEN [raises |-> TRUE, message |-> KeyErrorMessage("id")]
        ELSE IF data.type = Absent
        THEN [raises |-> TRUE, message |-> KeyErrorMessage("type")]
        ELSE IF ~data.image.present
        THEN [raises |-> TRUE, message |-> KeyErrorMessage("image")]
        ELSE IF opts.present /\ opts.pytype # "dict"
        THEN [raises |-> TRUE, message |-> NoGetMessage(opts.pytype)]
        ELSE [raises |-> FALSE, message |-> "", id |-> data.id, type |-> data.type,
              image |-> data.image, confidence_threshold |-> confidence,
              iou_threshold |-> iou]

\* data["image"] is read with a default: a missing image raises nothing
from_json_DefaultImage(data) ==
    LET opts == data.options
        confidence == IF opts.present /\ opts.confidence_threshold # NoOption
                      THEN opts.confidence_threshold ELSE DefaultConfidence
        iou == IF opts.present /\ opts.iou_threshold # NoOption
               THEN opts.iou_threshold ELSE DefaultIou
    IN  IF data.id = Absent THEN [raises |-> TRUE, message |-> KeyErrorMessage("id")]
        ELSE IF data.type = Absent
        THEN [raises |-> TRUE, message |-> KeyErrorMessage("type")]
        ELSE IF opts.present /\ opts.pytype # "dict"
        THEN [raises |-> TRUE, message |-> NoGetMessage(opts.pytype)]
        ELSE [raises |-> FALSE, message |-> "", id |-> data.id, type |-> data.type,
              image |-> data.image, confidence_threshold |-> confidence,
              iou_threshold |-> iou]

from_json(data) ==
    LET opts == data.options
        confidence == IF opts.present /\ opts.confidence_threshold # NoOption
                      THEN opts.confidence_threshold ELSE DefaultConfidence
        iou == IF opts.present /\ opts.iou_threshold # NoOption
               THEN opts.iou_threshold ELSE DefaultIou
    IN  IF data.id = Absent THEN [raises |-> TRUE, message |-> KeyErrorMessage("id")]
        ELSE IF data.type = Absent
        THEN [raises |-> TRUE, message |-> KeyErrorMessage("type")]
        ELSE IF ~data.image.present
        THEN [raises |-> TRUE, message |-> KeyErrorMessage("image")]
        ELSE IF opts.present /\ opts.pytype # "dict"
        THEN [raises |-> TRUE, message |-> NoGetMessage(opts.pytype)]
        ELSE [raises |-> FALSE, message |-> "", id |-> data.id, type |-> data.type,
              image |-> data.image, confidence_threshold |-> confidence,
              iou_threshold |-> iou]

\* the id is not looked up in the request
GetId_Constant(data) == "unknown"

\* server.py: data.get("id", "unknown") and data.get("type", "")
GetId(data) == IF data.id = Absent THEN "unknown" ELSE data.id
GetType(data) == IF data.type = Absent THEN "" ELSE data.type

(***************************************************************************)
(* The inputs: the lines the caller may send, and what the detector, the   *)
(* captioner and the clock may answer.                                     *)
(***************************************************************************)
NoImage ==
    [present |-> FALSE, pytype |-> None, len |-> 0, text |-> <<>>,
     is_image |-> FALSE, width |-> 0, height |-> 0]

\* count characters of one class: "data" for the base64 alphabet, "pad" for
\* "=", "other" for the rest of ASCII, "nonascii" for what is beyond ASCII
Run(class, count) == [class |-> class, count |-> count]

RECURSIVE TextLen(_)
TextLen(runs) ==
    IF runs = <<>> THEN 0 ELSE Head(runs).count + TextLen(Tail(runs))

\* a string of the given runs, whose bytes, if it decodes, are no image
Text(runs) ==
    [present |-> TRUE, pytype |-> "str", len |-> TextLen(runs), text |-> runs,
     is_image |-> FALSE, width |-> 0, height |-> 0]

\* a base64 text of n characters that decodes to a w x h image
Image(n, w, h) ==
    [Text(<<Run("data", n)>>) EXCEPT !.is_image = TRUE, !.width = w, !.height = h]

\* n characters that are base64 text of bytes that are not an image
NotAnImage(n) == Text(<<Run("data", n)>>)

\* "A" * (n - 3) + "===": one data character more than a multiple of four
BadLength(n) == Text(<<Run("data", n - 3), Run("pad", 3)>>)

\* "A" * (n - 1) + "!": the last group of four is not completed
BadPadding(n) == Text(<<Run("data", n - 1), Run("other", 1)>>)

\* "image": null, 5, [1], ...: a value of type pytype and, for a list or an
\* object, of n members
ImageOfType(pytype, n) ==
    [present |-> TRUE, pytype |-> pytype, len |-> n, text |-> <<>>,
     is_image |-> FALSE, width |-> 0, height |-> 0]

\* the image is one that detect() decodes: its text is base64 and the bytes
\* are an image
Decodes(image) ==
    /\ image.pytype = "str"
    /\ ~b64decode(image).raises
    /\ image.is_image

NoOptions ==
    [present |-> FALSE, pytype |-> None, confidence_threshold |-> NoOption,
     iou_threshold |-> NoOption]

\* "options": {...}, with NoOption for a key the object does not have
Options(confidence, iou) ==
    [present |-> TRUE, pytype |-> "dict", confidence_threshold |-> confidence,
     iou_threshold |-> iou]

\* "options": null, [1], 5, 1.5, "s", true: a value of type pytype, no dict
OptionsOfType(pytype) ==
    [present |-> TRUE, pytype |-> pytype, confidence_threshold |-> NoOption,
     iou_threshold |-> NoOption]

Object(id, type, image, options) ==
    [isdict |-> TRUE, id |-> id, type |-> type, image |-> image, options |-> options]

\* type(data).__name__ of a JSON value that is not an object: [1, 2], 5, 1.5,
\* "s", true, null
NonObjectTypes == {"list", "int", "float", "str", "bool", "NoneType"}

\* a JSON value that is not an object, of the Python type pytype
NonObject(pytype) ==
    [isdict |-> FALSE, pytype |-> pytype, id |-> Absent, type |-> Absent,
     image |-> NoImage, options |-> NoOptions]

\* data is not assigned
NoData == NonObject(None)

\* A line is [kind, exception, cause, data]: kind says what the text is (blank,
\* malformed: not valid JSON, json: valid JSON), exception and cause are the
\* class and str(e) of what json.loads raises on it (None when it returns),
\* data is the value json.loads returns.
\* a line that is empty after strip()
BlankLine == [kind |-> "blank", exception |-> None, cause |-> "", data |-> NoData]

\* a line json.loads rejects with JSONDecodeError(cause)
MalformedLine(cause) ==
    [kind |-> "malformed", exception |-> "JSONDecodeError", cause |-> cause,
     data |-> NoData]

\* a line on which json.loads raises an exception that is no JSONDecodeError
LoadsRaises(kind, exception, cause) ==
    [kind |-> kind, exception |-> exception, cause |-> cause, data |-> NoData]

\* the lines '[' * 100000 (not valid JSON), '[' * 100000 + ']' * 100000 and
\* '1' * 5000 (both valid JSON)
UndecodedLines ==
    { LoadsRaises("malformed", "RecursionError",
        "maximum recursion depth exceeded while decoding a JSON array from a unicode string"),
      LoadsRaises("json", "RecursionError",
        "maximum recursion depth exceeded while decoding a JSON array from a unicode string"),
      LoadsRaises("json", "ValueError",
        "Exceeds the limit (4300 digits) for integer string conversion: value has 5000 digits; use sys.set_int_max_str_digits() to increase the limit") }

\* the lines `{not json` and `abc`
MalformedLines ==
    { MalformedLine("Expecting property name enclosed in double quotes: line 1 column 2 (char 1)"),
      MalformedLine("Expecting value: line 1 column 1 (char 0)") }

\* a line json.loads accepts, and the value it returns
JsonLine(data) == [kind |-> "json", exception |-> None, cause |-> "", data |-> data]

SmallImage == Image(1024, 64, 64)
ImageAtLimits == Image(MAX_IMAGE_SIZE, 3840, 2160)
TooManyBytes == Image(MAX_IMAGE_SIZE + 1, 64, 64)
TooManyPixels == Image(2048, 3841, 2160)

PingRequests ==
    {Object(id, "ping", NoImage, NoOptions) : id \in {"r1", "unknown", Absent}}

OtherRequests ==
    { Object("r2", "status", NoImage, NoOptions),
      Object(Absent, "status", NoImage, NoOptions),
      Object("r2", Absent, NoImage, NoOptions),
      Object(Absent, Absent, NoImage, NoOptions) }

DetectRequests ==
    { Object("r3", "detect", SmallImage, Options(500, 300)),
      Object("r3", "detect", ImageAtLimits, NoOptions),
      Object("r3", "detect", TooManyBytes, NoOptions),
      Object("r3", "detect", TooManyPixels, NoOptions),
      Object("r3", "detect", NotAnImage(1024), NoOptions),
      Object("r3", "detect", BadLength(1024), NoOptions),
      Object("r3", "detect", BadPadding(1024), NoOptions),
      Object("r3", "detect", ImageOfType("NoneType", 0), NoOptions),
      Object("r3", "detect", NoImage, NoOptions),
      Object(Absent, "detect", SmallImage, NoOptions),
      Object("r3", "detect", SmallImage, OptionsOfType("NoneType")) }

\* detector boxes, in half pixels: a 10x10 box, an 4x4.5 box inside it, a box apart
BigBox == [xyxy |-> <<0, 0, 20, 20>>, conf |-> 9012]
InnerBox == [xyxy |-> <<5, 4, 13, 13>>, conf |-> 4567]
FarBox == [xyxy |-> <<30, 2, 41, 13>>, conf |-> 312]

YoloRaises ==
    [raises |-> TRUE, message |-> "CUDA out of memory", results |-> <<>>]

YoloReturns(results) == [raises |-> FALSE, message |-> "", results |-> results]

YoloOutcomes ==
    { YoloRaises,
      YoloReturns(<<>>),
      YoloReturns(<<[boxes |-> <<BigBox, InnerBox, FarBox>>]>>) }

\* what the captioner does at its first, second, ... call of one request
CaptionOutcomes ==
    { <<Generated(<<"O", "K", " ", "B", "o", "x">>), Generated(<<" ", "g", "o", "\n">>)>>,
      <<CaptionRaises, Generated(<<>>)>>,
      <<Generated(<<"S", "a", "v", "e">>), CaptionRaises>> }

\* int((time.monotonic() - start) * 1000)
Latencies == {0, 42}

(***************************************************************************)
(* server.py: main().                                                      *)
(***************************************************************************)
NoParser == OmniParser(None)

NoTrace ==
    [line |-> 0, before |-> NoParser, load_ran |-> FALSE, yolo_calls |-> 0,
     yolo_args |-> <<>>, yolo_raised |-> FALSE, detected |-> <<>>,
     filtered |-> <<>>, caption_calls |-> 0, caption_outcomes |-> <<>>,
     elapsed_ms |-> NoOption, exception |-> None, wrote |-> 0]

\* what an iteration that runs no part of the pipeline leaves in trace
Quiet(k, wrote) == [NoTrace EXCEPT !.line = k, !.before = parser, !.wrote = wrote]

Init ==
    /\ assets \in Assets
    /\ mps_available \in BOOLEAN
    /\ cuda_available \in BOOLEAN
    /\ pc = "start"
    /\ device = None
    /\ parser = NoParser
    /\ stdin_read = <<>>
    /\ stdout = <<>>
    /\ trace = NoTrace
    /\ call = NoCall
    /\ returned = NoCall

\* the parser is put on the cpu whatever select_device says
Startup_ParserOnCpu ==
    /\ pc = "start"
    /\ parser' = OmniParser("cpu")
    /\ device' = select_device(mps_available, cuda_available)
    /\ pc' = "loop"
    /\ UNCHANGED <<UnitCall, assets, mps_available, cuda_available, stdin_read,
                 stdout, trace>>

\* parser = OmniParser(); device = select_device()
Startup ==
    /\ pc = "start"
    /\ parser' = OmniParser(select_device(mps_available, cuda_available))
    /\ device' = select_device(mps_available, cuda_available)
    /\ pc' = "loop"
    /\ UNCHANGED <<UnitCall, assets, mps_available, cuda_available, stdin_read,
                 stdout, trace>>

\* the loop takes one more line from stdin
Reads(line) ==
    /\ pc = "loop"
    /\ Len(stdin_read) < MaxLines
    /\ stdin_read' = Append(stdin_read, line)

Environment == <<assets, mps_available, cuda_available, device>>

\* line = line.strip(); if not line: continue
ReadBlank ==
    /\ Reads(BlankLine)
    /\ trace' = Quiet(Len(stdin_read) + 1, 0)
    /\ UNCHANGED <<UnitCall, Environment, pc, parser, stdout>>

\* json.loads raises JSONDecodeError
ReadMalformed ==
    \E line \in MalformedLines :
        /\ Reads(line)
        /\ stdout' = Append(stdout,
                ErrorResponse("unknown", InvalidJsonMessage(line.cause),
                              Len(stdin_read) + 1))
        /\ trace' = Quiet(Len(stdin_read) + 1, 1)
        /\ UNCHANGED <<UnitCall, Environment, pc, parser>>

\* json.loads raises an exception that `except json.JSONDecodeError` does not
\* catch: it leaves main()
ReadUndecoded ==
    \E line \in UndecodedLines :
        /\ Reads(line)
        /\ pc' = "crashed"
        /\ trace' = [Quiet(Len(stdin_read) + 1, 0) EXCEPT !.exception = line.cause]
        /\ UNCHANGED <<UnitCall, Environment, parser, stdout>>

\* data.get on a value that is not a dict raises AttributeError outside the try
ReadNonObject ==
    \E pytype \in NonObjectTypes :
        /\ Reads(JsonLine(NonObject(pytype)))
        /\ pc' = "crashed"
        /\ trace' = [Quiet(Len(stdin_read) + 1, 0)
                       EXCEPT !.exception = NoGetMessage(pytype)]
        /\ UNCHANGED <<UnitCall, Environment, parser, stdout>>

\* the ping handler loads the backends to report on them
HandlePing_Loads ==
    \E data \in PingRequests :
        /\ Reads(JsonLine(data))
        /\ GetType(data) = "ping"
        /\ load(parser, assets).outcome = "return"
        /\ parser' = load(parser, assets).self
        /\ stdout' = Append(stdout,
                PongResponse(GetId(data), is_loaded(parser), device,
                             Len(stdin_read) + 1))
        /\ trace' = Quiet(Len(stdin_read) + 1, 1)
        /\ UNCHANGED <<UnitCall, Environment, pc>>

\* req_type == "ping"
HandlePing ==
    \E data \in PingRequests :
        /\ Reads(JsonLine(data))
        /\ GetType(data) = "ping"
        /\ stdout' = Append(stdout,
                PongResponse(GetId(data), is_loaded(parser), device,
                             Len(stdin_read) + 1))
        /\ trace' = Quiet(Len(stdin_read) + 1, 1)
        /\ UNCHANGED <<UnitCall, Environment, pc, parser>>

\* req_type == "detect", for one request and one choice of what the detector,
\* the captioner and the clock do.  trace.exception is str(e) of the exception
\* raised while the line was dispatched
DispatchDetect(data, yolo, captions, elapsed_ms) ==
    LET k == Len(stdin_read) + 1
        req_id == GetId(data)
        req == from_json(data)
    IN  /\ Reads(JsonLine(data))
        /\ GetType(data) = "detect"
        /\ IF req.raises
           THEN /\ stdout' = Append(stdout, ErrorResponse(req_id, req.message, k))
                /\ trace' = [Quiet(k, 1) EXCEPT !.exception = req.message]
                /\ UNCHANGED <<pc, parser>>
           ELSE \E run \in {detect(parser, req.image, req.confidence_threshold,
                                    req.iou_threshold, assets, yolo, captions)} :
                /\ parser' = run.self
                /\ pc' = IF run.outcome = "exit" THEN "exit1" ELSE pc
                /\ stdout' =
                     CASE run.outcome = "return" ->
                            Append(stdout,
                                   DetectResponse(req_id, run.elements, elapsed_ms, k))
                       [] run.outcome = "raise" ->
                            Append(stdout, ErrorResponse(req_id, run.message, k))
                       [] run.outcome = "exit" -> stdout
                /\ trace' = [line |-> k, before |-> parser,
                             load_ran |-> run.load_ran,
                             yolo_calls |-> run.yolo_calls,
                             yolo_args |-> run.yolo_args,
                             yolo_raised |-> run.yolo_raised,
                             detected |-> run.detected,
                             filtered |-> run.filtered,
                             caption_calls |-> run.caption_calls,
                             caption_outcomes |-> run.caption_outcomes,
                             elapsed_ms |-> IF run.outcome = "return"
                                            THEN elapsed_ms ELSE NoOption,
                             exception |-> IF run.outcome = "return"
                                           THEN None ELSE run.message,
                             wrote |-> IF run.outcome = "exit" THEN 0 ELSE 1]
        /\ UNCHANGED <<UnitCall, Environment>>

\* req_type == "detect"
HandleDetect ==
    \E data \in DetectRequests, yolo \in YoloOutcomes,
       captions \in CaptionOutcomes, elapsed_ms \in Latencies :
        DispatchDetect(data, yolo, captions, elapsed_ms)

\* any other req_type
HandleUnknownType ==
    \E data \in OtherRequests :
        /\ Reads(JsonLine(data))
        /\ GetType(data) \notin {"ping", "detect"}
        /\ stdout' = Append(stdout,
                ErrorResponse(GetId(data), UnknownTypeMessage(GetType(data)),
                              Len(stdin_read) + 1))
        /\ trace' = Quiet(Len(stdin_read) + 1, 1)
        /\ UNCHANGED <<UnitCall, Environment, pc, parser>>

\* sys.stdin is at end of input: the for loop ends and main() returns
EndOfInput ==
    /\ pc = "loop"
    /\ pc' = "eof"
    /\ UNCHANGED <<UnitCall, Environment, parser, stdin_read, stdout, trace>>

Next ==
    \/ Startup
    \/ ReadBlank
    \/ ReadMalformed
    \/ ReadUndecoded
    \/ ReadNonObject
    \/ HandlePing
    \/ HandleDetect
    \/ HandleUnknownType
    \/ EndOfInput

Spec == Init /\ [][Next]_vars

(***************************************************************************)
(* omniparser.py: _remove_overlap called on its own, on every list of at   *)
(* most MaxBoxes candidate boxes and every threshold of the families       *)
(* below, and then once more on what it returned.                          *)
(***************************************************************************)
\* candidate boxes, in half pixels: a box, a half and a quarter of it, boxes
\* that share a part or an edge with them, a box apart, a box of no area
CandidateBoxes ==
    { [xyxy |-> <<0, 0, 8, 8>>, conf |-> 9012],
      [xyxy |-> <<0, 0, 8, 4>>, conf |-> 8000],
      [xyxy |-> <<0, 0, 4, 4>>, conf |-> 7000],
      [xyxy |-> <<4, 0, 12, 4>>, conf |-> 6000],
      [xyxy |-> <<8, 0, 12, 8>>, conf |-> 5000],
      [xyxy |-> <<1, 1, 7, 8>>, conf |-> 4567],
      [xyxy |-> <<2, 2, 2, 6>>, conf |-> 3000],
      [xyxy |-> <<20, 20, 24, 24>>, conf |-> 312] }

CandidateLists == UNION {[1..n -> CandidateBoxes] : n \in 0..MaxBoxes}

\* iou_threshold, in thousandths: the caller's option is not validated
Thresholds == {-100, 0, 500, 1000}

\* the call _remove_overlap(boxes, iou_threshold)
RemoveOverlapCall(boxes, iou_threshold) ==
    [function |-> "_remove_overlap", boxes |-> boxes, iou_threshold |-> iou_threshold]

\* the entries _remove_overlap returned, as boxes it can be called on again
AsBoxes(entries) ==
    [k \in 1..Len(entries) |-> [xyxy |-> entries[k].xyxy, conf |-> entries[k].conf]]

\* the variables of main(), which a function called on its own does not touch
Server == <<assets, mps_available, cuda_available, device, parser, stdin_read,
            stdout, trace>>

SuppressInit ==
    /\ call \in {RemoveOverlapCall(boxes, t) : boxes \in CandidateLists, t \in Thresholds}
    /\ returned = NoCall
    /\ pc = "call"
    /\ assets = "ok"
    /\ mps_available = FALSE
    /\ cuda_available = FALSE
    /\ device = None
    /\ parser = NoParser
    /\ stdin_read = <<>>
    /\ stdout = <<>>
    /\ trace = NoTrace

\* filtered = self._remove_overlap(boxes, iou_threshold)
CallRemoveOverlap ==
    /\ pc = "call"
    /\ returned' = [function |-> "_remove_overlap",
                    value |-> _remove_overlap(call.boxes, call.iou_threshold)]
    /\ pc' = "returned"
    /\ UNCHANGED <<call, Server>>

\* _remove_overlap on the boxes it returned, with the same threshold
CallRemoveOverlapAgain ==
    /\ pc = "returned"
    /\ returned' = [function |-> "_remove_overlap",
                    value |-> returned.value,
                    again |-> _remove_overlap(AsBoxes(returned.value),
                                              call.iou_threshold)]
    /\ pc' = "again"
    /\ UNCHANGED <<call, Server>>

SuppressNext == CallRemoveOverlap \/ CallRemoveOverlapAgain

SuppressSpec == SuppressInit /\ [][SuppressNext]_vars

(***************************************************************************)
(* omniparser.py: _remove_overlap called on a candidate list, and then on  *)
(* the same boxes with other confidences, each box given any of two.       *)
(***************************************************************************)
\* float(box.conf[0]), in ten-thousandths
Confidences == {100, 9999}

\* the boxes with confidences confs in place of their own
Rescored(boxes, confs) ==
    [k \in 1..Len(boxes) |-> [xyxy |-> boxes[k].xyxy, conf |-> confs[k]]]

\* _remove_overlap on the same coordinates, the detector scoring them otherwise
CallRemoveOverlapRescored ==
    /\ pc = "returned"
    /\ \E confs \in [1..Len(call.boxes) -> Confidences] :
          returned' = [function |-> "_remove_overlap",
                       value |-> returned.value,
                       confs |-> confs,
                       rescored |-> _remove_overlap(Rescored(call.boxes, confs),
                                                    call.iou_threshold)]
    /\ pc' = "rescored"
    /\ UNCHANGED <<call, Server>>

RescoreNext == CallRemoveOverlap \/ CallRemoveOverlapRescored

RescoreSpec == SuppressInit /\ [][RescoreNext]_vars

(***************************************************************************)
(* omniparser.py: one crop captioned, for every text of at most MaxCaption *)
(* characters the captioner can decode and for a captioner that raises,    *)
(* and the element detect builds from the result (omniparser.py:98-113).   *)
(***************************************************************************)
CaptionAlphabet == {"O", "k", " ", "\n", "\r"}

CaptionTexts == UNION {[1..n -> CaptionAlphabet] : n \in 0..MaxCaption}

CaptionerOutcomes == {CaptionRaises} \cup {Generated(text) : text \in CaptionTexts}

\* the call _caption_crop(crop), with what the captioner does for the crop
CaptionCropCall(outcome) == [function |-> "_caption_crop", outcome |-> outcome]

CaptionInit ==
    /\ call \in {CaptionCropCall(outcome) : outcome \in CaptionerOutcomes}
    /\ returned = NoCall
    /\ pc = "call"
    /\ assets = "ok"
    /\ mps_available = FALSE
    /\ cuda_available = FALSE
    /\ device = None
    /\ parser = NoParser
    /\ stdin_read = <<>>
    /\ stdout = <<>>
    /\ trace = NoTrace

\* label, description = self._caption_crop(crop)
CallCaptionCrop ==
    /\ pc = "call"
    /\ returned' = [function |-> "_caption_crop",
                    value |-> _caption_crop(call.outcome)]
    /\ pc' = "returned"
    /\ UNCHANGED <<call, Server>>

\* elements.append(DetectedElement(label=label or "icon", ...)) for the box
AppendElement ==
    /\ pc = "returned"
    /\ returned' = [function |-> "_caption_crop",
                    value |-> returned.value,
                    element |-> Elements(<<BigBox>>, <<call.outcome>>, 1)[1]]
    /\ pc' = "appended"
    /\ UNCHANGED <<call, Server>>

CaptionNext == CallCaptionCrop \/ AppendElement

CaptionSpec == CaptionInit /\ [][CaptionNext]_vars

(***************************************************************************)
(* omniparser.py: _compute_iou called on its own, on every pair of boxes   *)
(* with coordinates in 0..MaxCoord (boxes of no width or height included), *)
(* and then on the same two boxes in the other order.                      *)
(***************************************************************************)
GridBoxes ==
    { <<x1, y1, x2, y2>> : x1 \in 0..MaxCoord, y1 \in 0..MaxCoord,
                           x2 \in 0..MaxCoord, y2 \in 0..MaxCoord }
      \ { b \in (0..MaxCoord) \X (0..MaxCoord) \X (0..MaxCoord) \X (0..MaxCoord) :
              b[1] > b[3] \/ b[2] > b[4] }

\* the call _compute_iou(box1, box2)
ComputeIouCall(box1, box2) ==
    [function |-> "_compute_iou", box1 |-> box1, box2 |-> box2]

IouInit ==
    /\ call \in {ComputeIouCall(box1, box2) : box1 \in GridBoxes, box2 \in GridBoxes}
    /\ returned = NoCall
    /\ pc = "call"
    /\ assets = "ok"
    /\ mps_available = FALSE
    /\ cuda_available = FALSE
    /\ device = None
    /\ parser = NoParser
    /\ stdin_read = <<>>
    /\ stdout = <<>>
    /\ trace = NoTrace

\* iou = self._compute_iou(b1['xyxy'], b2['xyxy'])
CallComputeIou ==
    /\ pc = "call"
    /\ returned' = [function |-> "_compute_iou",
                    value |-> _compute_iou(call.box1, call.box2)]
    /\ pc' = "returned"
    /\ UNCHANGED <<call, Server>>

\* _compute_iou on the same boxes, exchanged
CallComputeIouExchanged ==
    /\ pc = "returned"
    /\ returned' = [function |-> "_compute_iou",
                    value |-> returned.value,
                    again |-> _compute_iou(call.box2, call.box1)]
    /\ pc' = "again"
    /\ UNCHANGED <<call, Server>>

IouNext == CallComputeIou \/ CallComputeIouExchanged

IouSpec == IouInit /\ [][IouNext]_vars

(***************************************************************************)
(* server.py: one detect request dispatched by a server that has just      *)
(* started on a machine whose model assets load: from_json, detect with    *)
(* the thresholds of the request, and the response.  The inputs are the    *)
(* options of the request and the boxes the detector returns for the       *)
(* 64x64 image, at most MaxBoxes of them.                                  *)
(***************************************************************************)
\* detector boxes inside the 64x64 image, in half pixels: a 10x10 box, a box
\* 0.4 of which lies in the first, a box inside the first, a box half a pixel
\* wide, and a box that ends at the right and bottom edges of the image
DetectorBoxes ==
    { BigBox,
      [xyxy |-> <<16, 0, 26, 20>>, conf |-> 4565],
      InnerBox,
      [xyxy |-> <<5, 30, 6, 41>>, conf |-> 3125],
      [xyxy |-> <<117, 117, 128, 128>>, conf |-> 312] }

DetectorLists == UNION {[1..n -> DetectorBoxes] : n \in 0..MaxBoxes}

\* the options a detect request may carry
RequestOptions ==
    { NoOptions,
      Options(NoOption, NoOption),
      Options(500, 300),
      Options(250, NoOption),
      Options(NoOption, 1000),
      OptionsOfType("NoneType"),
      OptionsOfType("list") }

\* what the captioner does at each of its calls, one outcome per box at most
CaptionsPerBox ==
    { [k \in 1..MaxBoxes |-> outcomes[((k - 1) % Len(outcomes)) + 1]] :
        outcomes \in CaptionOutcomes }

\* the state main() is in when it enters the loop
DetectInit ==
    /\ assets = "ok"
    /\ mps_available = FALSE
    /\ cuda_available \in BOOLEAN
    /\ device = select_device(mps_available, cuda_available)
    /\ parser = OmniParser(select_device(mps_available, cuda_available))
    /\ pc = "loop"
    /\ stdin_read = <<>>
    /\ stdout = <<>>
    /\ trace = NoTrace
    /\ call = NoCall
    /\ returned = NoCall

\* the first line is a detect request
DetectOnce ==
    \E options \in RequestOptions, boxes \in DetectorLists,
       captions \in CaptionsPerBox, elapsed_ms \in Latencies :
        /\ stdin_read = <<>>
        /\ DispatchDetect(Object("r3", "detect", SmallImage, options),
                          YoloReturns(<<[boxes |-> boxes]>>), captions, elapsed_ms)

DetectSpec == DetectInit /\ [][DetectOnce]_vars

(***************************************************************************)
(* omniparser.py: one OmniParser object, on which load(), detect() and the *)
(* is_loaded property are called in any order, at most MaxCalls times.     *)
(* returned says what the last call did: the object before the call, how   *)
(* the call ended, whether load() got past its loaded test, and the value  *)
(* of is_loaded.                                                           *)
(***************************************************************************)
Called(function, n) == [function |-> function, n |-> n]

Outcome(function, before, outcome, load_ran, value) ==
    [function |-> function, before |-> before, outcome |-> outcome,
     load_ran |-> load_ran, value |-> value]

\* what is left alone by calls made on the parser directly
Machine == <<assets, mps_available, cuda_available, device, stdin_read, stdout, trace>>

\* parser = OmniParser()
LifecycleInit ==
    /\ assets \in Assets
    /\ mps_available \in BOOLEAN
    /\ cuda_available \in BOOLEAN
    /\ device = select_device(mps_available, cuda_available)
    /\ parser = OmniParser(select_device(mps_available, cuda_available))
    /\ pc = "ready"
    /\ call = Called("__init__", 0)
    /\ returned = Outcome("__init__", parser, "return", FALSE, FALSE)
    /\ stdin_read = <<>>
    /\ stdout = <<>>
    /\ trace = NoTrace

\* parser.load()
CallLoad ==
    LET r == load(parser, assets)
    IN  /\ pc = "ready"
        /\ call.n < MaxCalls
        /\ call' = Called("load", call.n + 1)
        /\ parser' = r.self
        /\ returned' = Outcome("load", parser, r.outcome, r.ran, FALSE)
        /\ pc' = IF r.outcome = "exit" THEN "exit1" ELSE "ready"
        /\ UNCHANGED Machine

\* parser.detect(image, 0.3, 0.5)
CallDetect ==
    \E image \in {SmallImage, TooManyBytes}, yolo \in YoloOutcomes,
       captions \in CaptionOutcomes :
        LET r == detect(parser, image, DefaultConfidence, DefaultIou, assets,
                        yolo, captions)
        IN  /\ pc = "ready"
            /\ call.n < MaxCalls
            /\ call' = Called("detect", call.n + 1)
            /\ parser' = r.self
            /\ returned' = Outcome("detect", parser, r.outcome, r.load_ran, FALSE)
            /\ pc' = IF r.outcome = "exit" THEN "exit1" ELSE "ready"
            /\ UNCHANGED Machine

\* parser.is_loaded
CallIsLoaded ==
    /\ pc = "ready"
    /\ call.n < MaxCalls
    /\ call' = Called("is_loaded", call.n + 1)
    /\ returned' = Outcome("is_loaded", parser, "return", FALSE, is_loaded(parser))
    /\ UNCHANGED <<pc, parser, Machine>>

LifecycleNext == CallLoad \/ CallDetect \/ CallIsLoaded

LifecycleSpec == LifecycleInit /\ [][LifecycleNext]_vars

(***************************************************************************)
(* Vocabulary of the properties.                                           *)
(***************************************************************************)
Last(q) == q[Len(q)]

\* the step takes a line from stdin
TakesLine == Len(stdin_read') = Len(stdin_read) + 1

\* the responses written for line k
ResponsesTo(k) == {i \in 1..Len(stdout) : stdout[i].line = k}

IsRequest(line, type) ==
    line.kind = "json" /\ line.data.isdict /\ GetType(line.data) = type

\* the indexes of the lines read that are not blank, in increasing order
RECURSIVE NonBlank(_, _)
NonBlank(lines, k) ==
    IF k > Len(lines) THEN <<>>
    ELSE (IF lines[k].kind = "blank" THEN <<>> ELSE <<k>>) \o NonBlank(lines, k + 1)

(***************************************************************************)
(* C1.  Whatever a line holds, the main loop does not terminate while      *)
(* processing it: the process leaves the loop only at end of input.  The   *)
(* code does not keep this: a JSON value that is not an object raises      *)
(* AttributeError outside the try block, and a detect request on a machine *)
(* without a models directory runs sys.exit(1).                            *)
(***************************************************************************)
C1_LoopEndsOnlyAtEndOfInput == pc \in {"start", "loop", "eof"}

(***************************************************************************)
(* C2.  Exactly one response is written for each non-blank line read and   *)
(* none for a blank line, in the order of the lines, the response to a     *)
(* line being on stdout before the next line is read.  The code does not   *)
(* keep this for the lines of C1 that end the process: they get no         *)
(* response.                                                               *)
(***************************************************************************)
C2_OneResponsePerNonBlankLine ==
    [i \in 1..Len(stdout) |-> stdout[i].line] = NonBlank(stdin_read, 1)

(***************************************************************************)
(* C3, as claimed.  Every response carries the id of the line it answers,  *)
(* and "unknown" only answers a line that is not JSON.                     *)
(***************************************************************************)
C3_UnknownOnlyForUnparsedLines ==
    \A i \in 1..Len(stdout) :
        LET line == stdin_read[stdout[i].line]
        IN  IF line.kind = "malformed"
            THEN stdout[i].id = "unknown"
            ELSE line.data.id # Absent /\ stdout[i].id = line.data.id

(***************************************************************************)
(* C3, amended.  Every response carries the id of the line it answers when *)
(* that line is a JSON object with an `id` key; the id is "unknown" when   *)
(* the line is not JSON and also when the object has no `id` key.          *)
(***************************************************************************)
C3_ResponseCarriesRequestId ==
    \A i \in 1..Len(stdout) :
        LET line == stdin_read[stdout[i].line]
        IN  stdout[i].id = IF line.kind = "json" /\ line.data.id # Absent
                           THEN line.data.id
                           ELSE "unknown"

\* responses were written to a request with its own id and to one without an id
C3_Witness ==
    /\ \E i \in 1..Len(stdout) :
            /\ stdin_read[stdout[i].line].kind = "json"
            /\ stdin_read[stdout[i].line].data.id = Absent
            /\ stdout[i].id = "unknown"
    /\ \E i \in 1..Len(stdout) : stdout[i].id = "r3"

(***************************************************************************)
(* C4.  A line that is not valid JSON gets exactly one response, an error  *)
(* with id "unknown" and the message "Invalid JSON: " followed by the      *)
(* decoder's cause; the parser, the device and the position of the server  *)
(* are unchanged, and the server is still in its loop.  The code does not  *)
(* keep this: only JSONDecodeError is caught, and on a line of brackets    *)
(* nested too deep json.loads raises RecursionError, which ends main()     *)
(* without a response.                                                     *)
(***************************************************************************)
C4_MalformedLineYieldsInvalidJson ==
    [][ (TakesLine /\ Last(stdin_read').kind = "malformed") =>
            /\ stdout' = Append(stdout,
                    [id |-> "unknown", type |-> "error",
                     message |-> "Invalid JSON: " \o Last(stdin_read').cause,
                     line |-> Len(stdin_read')])
            /\ parser' = parser
            /\ device' = device
            /\ pc' = "loop" ]_vars

\* line is a detect request with every required field
IsDetectCall(line) ==
    /\ IsRequest(line, "detect")
    /\ line.data.id # Absent
    /\ line.data.image.present

\* the message names the 50MB limit
Names50MB(message) == message = SizeMessage(MAX_IMAGE_SIZE + 1)

\* the message names the 4K limit
Names4K(message) ==
    \E line \in {stdin_read[k] : k \in 1..Len(stdin_read)} :
        message = DimensionMessage(line.data.image.width, line.data.image.height)

(***************************************************************************)
(* C5.  A detect request whose base64 payload is longer than 50*1024*1024  *)
(* is answered by an error whose message contains "50MB", whatever the     *)
(* lifecycle state and whatever model assets are present, and a payload of *)
(* exactly that length is not answered so.  The code does not keep this:   *)
(* detect() runs load() before it looks at the payload, so when the        *)
(* backends are not loaded and cannot be, the request is answered with the *)
(* loader's message, or the process exits without an answer.               *)
(***************************************************************************)
C5_OversizedPayloadNames50MB ==
    \A k \in 1..Len(stdin_read) :
        IsDetectCall(stdin_read[k]) =>
            IF stdin_read[k].data.image.len > MAX_IMAGE_SIZE
            THEN \E i \in ResponsesTo(k) :
                    stdout[i].type = "error" /\ Names50MB(stdout[i].message)
            ELSE \A i \in ResponsesTo(k) :
                    stdout[i].type = "error" => ~Names50MB(stdout[i].message)

(***************************************************************************)
(* C6.  A detect request whose decoded image has more than 3840*2160       *)
(* pixels is answered by an error naming the 4K limit, never by a result,  *)
(* and neither the detector nor the captioner is called for it; an image   *)
(* of exactly 3840*2160 pixels is not answered so.  The code does not keep *)
(* this, for the reason of C5 and C7: load() runs first.                   *)
(***************************************************************************)
C6_OversizedImageNames4K ==
    \A k \in 1..Len(stdin_read) :
        LET image == stdin_read[k].data.image
        IN  (IsDetectCall(stdin_read[k]) /\ image.len <= MAX_IMAGE_SIZE
                /\ Decodes(image)) =>
                IF image.width * image.height > MAX_PIXELS
                THEN /\ \E i \in ResponsesTo(k) :
                            stdout[i].type = "error" /\ Names4K(stdout[i].message)
                     /\ trace.line = k => trace.yolo_calls = 0 /\ trace.caption_calls = 0
                ELSE \A i \in ResponsesTo(k) :
                        stdout[i].type = "error" => ~Names4K(stdout[i].message)

(***************************************************************************)
(* C7.  detect() validates the payload size, decodes, validates the        *)
(* dimensions and only then loads the backends: a call rejected by one of  *)
(* the three performs no load, and a parser that was not loaded before it  *)
(* is not loaded after it.  The code does not keep this: self.load() is    *)
(* the first statement of detect().                                        *)
(***************************************************************************)
C7_RejectedCallLoadsNothing ==
    LET line == stdin_read[trace.line]
        image == line.data.image
    IN  (/\ trace.line > 0
         /\ IsDetectCall(line)
         /\ \/ image.len > MAX_IMAGE_SIZE
            \/ ~Decodes(image)
            \/ image.width * image.height > MAX_PIXELS) =>
            /\ ~trace.load_ran
            /\ ~trace.before._loaded => parser = trace.before

(***************************************************************************)
(* C8.  Handling a ping loads nothing: the parser (its loaded flag, its    *)
(* detector, captioner and processor, its device) is unchanged, and the    *)
(* pong written for the ping reports the parser's loaded flag as it is     *)
(* when the ping is handled.                                               *)
(***************************************************************************)
C8_PingLoadsNothing ==
    [][ (TakesLine /\ IsRequest(Last(stdin_read'), "ping")) =>
            /\ parser' = parser
            /\ device' = device
            /\ Len(stdout') = Len(stdout) + 1
            /\ Last(stdout').type = "pong"
            /\ Last(stdout').line = Len(stdin_read')
            /\ Last(stdout').models_loaded = parser._loaded ]_vars

\* a ping has just been answered by a server whose backends are loaded
C8_Witness ==
    /\ stdin_read # <<>>
    /\ IsRequest(Last(stdin_read), "ping")
    /\ trace.line = Len(stdin_read)
    /\ stdout # <<>>
    /\ Last(stdout).type = "pong"
    /\ Last(stdout).models_loaded
    /\ parser._loaded
    /\ parser.yolo_model # None

\* some line before line k is a detect request
DetectBefore(k) == \E j \in 1..(k - 1) : IsRequest(stdin_read[j], "detect")

\* line is a detect request that from_json accepts, so that detect() is called
ReachesDetect(line) ==
    /\ IsRequest(line, "detect")
    /\ ~from_json(line.data).raises

\* some line before line k is a detect request that got past field parsing,
\* on a machine whose model assets load
LoadedBefore(k) ==
    \E j \in 1..(k - 1) : ReachesDetect(stdin_read[j]) /\ assets = "ok"

(***************************************************************************)
(* C9, as claimed.  A pong written before any detect request was processed *)
(* says models_loaded = false, and a pong written after a detect request   *)
(* was processed says models_loaded = true.                                *)
(***************************************************************************)
C9_PongLoadedAfterAnyDetect ==
    \A i \in 1..Len(stdout) :
        stdout[i].type = "pong" =>
            stdout[i].models_loaded = DetectBefore(stdout[i].line)

(***************************************************************************)
(* C9, amended.  A pong written before any detect request was processed    *)
(* says models_loaded = false; a pong written after a detect request whose *)
(* backend load completed (the request reached detect() and the model      *)
(* assets load) says models_loaded = true; a pong written after detect     *)
(* requests that all failed before or during the load still says false.    *)
(***************************************************************************)
C9_PongLoadedAfterCompletedLoad ==
    \A i \in 1..Len(stdout) :
        stdout[i].type = "pong" =>
            /\ ~DetectBefore(stdout[i].line) => ~stdout[i].models_loaded
            /\ stdout[i].models_loaded = LoadedBefore(stdout[i].line)

\* a pong after a detect request says true
C9_Witness ==
    \E i \in 1..Len(stdout) :
        /\ stdout[i].type = "pong"
        /\ DetectBefore(stdout[i].line)
        /\ stdout[i].models_loaded

(***************************************************************************)
(* C10.  When no models directory can be resolved the process fails before *)
(* the request loop begins, so before a line is read; and once lines are   *)
(* being read no request makes the process exit for missing assets.  The   *)
(* code does not keep this: models_dir() is called by load(), which first  *)
(* runs inside the first detect request.                                   *)
(***************************************************************************)
C10_MissingAssetsFatalAtStartup ==
    /\ assets = "missing" => stdin_read = <<>>
    /\ stdin_read # <<>> => pc # "exit1"

\* the parsed object lacks `id` or `type` or, a detect request, `image`
LacksField(data) ==
    \/ data.id = Absent
    \/ data.type = Absent
    \/ data.type = "detect" /\ ~data.image.present

\* line k was answered by error responses only, the pipeline did not run for
\* it, and the loop went on to take the next line (or to find end of input)
CallerError(k) ==
    /\ ResponsesTo(k) # {}
    /\ \A i \in ResponsesTo(k) : stdout[i].type = "error"
    /\ trace.line = k =>
          /\ ~trace.load_ran
          /\ trace.yolo_calls = 0
          /\ trace.caption_calls = 0
          /\ trace.before = parser
          /\ pc \in {"loop", "eof"}

(***************************************************************************)
(* C11, as claimed.  A line that is a JSON object lacking `id`, `type` or,  *)
(* for a detect request, `image` is answered by an error response, never   *)
(* by a pong or a result; the pipeline is not run for it and the server    *)
(* goes on with the next line.                                             *)
(***************************************************************************)
C11_MissingFieldIsError ==
    \A k \in 1..Len(stdin_read) :
        LET line == stdin_read[k]
        IN  line.kind = "json" /\ line.data.isdict /\ LacksField(line.data)
                => CallerError(k)

(***************************************************************************)
(* C11, amended.  A line that is a JSON object lacking `type`, or a detect  *)
(* request lacking `id` or `image`, or a request of any other type than    *)
(* ping lacking `id`, is answered by exactly one error response, never by  *)
(* a pong or a result; the pipeline is not run for it and the server goes  *)
(* on with the next line.  A ping lacking `id` is not an error: it is      *)
(* answered by a pong with id "unknown".                                   *)
(***************************************************************************)
C11_MissingFieldIsErrorExceptPing ==
    \A k \in 1..Len(stdin_read) :
        LET line == stdin_read[k]
        IN  line.kind = "json" /\ line.data.isdict /\ LacksField(line.data) =>
                IF line.data.type = "ping"
                THEN /\ Cardinality(ResponsesTo(k)) = 1
                     /\ \A i \in ResponsesTo(k) :
                            stdout[i].type = "pong" /\ stdout[i].id = "unknown"
                ELSE Cardinality(ResponsesTo(k)) = 1 /\ CallerError(k)

\* a detect request without image was answered by the KeyError's text
C11_Witness ==
    /\ stdin_read # <<>>
    /\ IsRequest(Last(stdin_read), "detect")
    /\ Last(stdin_read).data.id # Absent
    /\ ~Last(stdin_read).data.image.present
    /\ trace.line = Len(stdin_read)
    /\ stdout # <<>>
    /\ Last(stdout).line = Len(stdin_read)
    /\ Last(stdout).type = "error"
    /\ Last(stdout).message = KeyErrorMessage("image")
    /\ pc = "loop"

(***************************************************************************)
(* C12.  A request whose type is neither "ping" nor "detect" (a missing     *)
(* type included, which reads as the empty type) is answered by exactly    *)
(* one error response that carries the request's id ("unknown" when the    *)
(* request has none) and the message "Unknown request type: <type>"; no     *)
(* model is loaded and the pipeline is not invoked for it.                 *)
(***************************************************************************)
C12_UnknownTypeIsOneError ==
    \A k \in 1..Len(stdin_read) :
        LET data == stdin_read[k].data
            type == IF data.type = Absent THEN "" ELSE data.type
        IN  stdin_read[k].kind = "json" /\ data.isdict /\ type \notin {"ping", "detect"} =>
                /\ Cardinality(ResponsesTo(k)) = 1
                /\ \A i \in ResponsesTo(k) :
                       /\ stdout[i].type = "error"
                       /\ stdout[i].id = IF data.id = Absent THEN "unknown" ELSE data.id
                       /\ stdout[i].message = "Unknown request type: " \o type
                /\ trace.line = k =>
                       /\ ~trace.load_ran
                       /\ trace.yolo_calls = 0
                       /\ trace.caption_calls = 0
                       /\ trace.before = parser

\* a "status" request with an id was answered on a server that loaded nothing
C12_Witness ==
    /\ stdin_read # <<>>
    /\ IsRequest(Last(stdin_read), "status")
    /\ Last(stdin_read).data.id = "r2"
    /\ trace.line = Len(stdin_read)
    /\ stdout # <<>>
    /\ Last(stdout).line = Len(stdin_read)
    /\ Last(stdout).id = "r2"
    /\ Last(stdout).message = "Unknown request type: status"
    /\ ~parser._loaded

\* the captioner's outcomes of the last request, its failures replaced by a
\* generated text
WithoutFailure ==
    [k \in 1..Len(trace.caption_outcomes) |->
        IF trace.caption_outcomes[k].raises
        THEN Generated(<<"m", "e", "n", "u">>)
        ELSE trace.caption_outcomes[k]]

(***************************************************************************)
(* C13.  When the captioner raises for a surviving box, the request is      *)
(* still answered by one result whose element list has one element per     *)
(* surviving box: the element of the failing box has label "icon" and       *)
(* description "", and the element of every other box is what it is when    *)
(* the captioner does not fail.                                            *)
(***************************************************************************)
C13_CaptionFailureDegradesOneElement ==
    (\E k \in 1..Len(trace.caption_outcomes) : trace.caption_outcomes[k].raises) =>
        /\ Cardinality(ResponsesTo(trace.line)) = 1
        /\ \A i \in ResponsesTo(trace.line) :
               /\ stdout[i].type = "result"
               /\ Len(stdout[i].elements) = Len(trace.filtered)
               /\ \A k \in 1..Len(trace.filtered) :
                      IF trace.caption_outcomes[k].raises
                      THEN /\ stdout[i].elements[k].label = "icon"
                           /\ stdout[i].elements[k].description = ""
                           /\ stdout[i].elements[k].confidence
                                = Elements(trace.filtered, WithoutFailure, 1)[k].confidence
                           /\ stdout[i].elements[k].bounds
                                = Elements(trace.filtered, WithoutFailure, 1)[k].bounds
                      ELSE stdout[i].elements[k]
                             = Elements(trace.filtered, WithoutFailure, 1)[k]

\* the captioner raised for the second of two surviving boxes and the first
\* element has its generated label
C13_Witness ==
    /\ Len(trace.filtered) = 2
    /\ ~trace.caption_outcomes[1].raises
    /\ trace.caption_outcomes[2].raises
    /\ stdout # <<>>
    /\ Last(stdout).line = trace.line
    /\ Last(stdout).type = "result"
    /\ Len(Last(stdout).elements) = 2
    /\ Last(stdout).elements[1].label = "save"
    /\ Last(stdout).elements[2].label = "icon"

(***************************************************************************)
(* C14.  When the detector raises during inference, the request is          *)
(* answered by exactly one error response, which carries the request's id  *)
(* and the detector's message, and by no result: no element is built (the  *)
(* captioner is not called).  The server goes on with the next line.       *)
(***************************************************************************)
C14_DetectorFailureIsOneError ==
    trace.yolo_raised =>
        /\ Cardinality(ResponsesTo(trace.line)) = 1
        /\ \A i \in ResponsesTo(trace.line) :
               /\ stdout[i].type = "error"
               /\ stdout[i].id = stdin_read[trace.line].data.id
               /\ stdout[i].message = YoloRaises.message
        /\ trace.caption_calls = 0
        /\ trace.yolo_calls = 1
        /\ pc \in {"loop", "eof"}

\* the detector raised for the first request and the server took a second line
C14_Witness ==
    /\ Len(stdin_read) = 2
    /\ IsDetectCall(stdin_read[1])
    /\ \E i \in ResponsesTo(1) :
          stdout[i].type = "error" /\ stdout[i].message = YoloRaises.message
    /\ trace.line = 2
    /\ trace.yolo_raised
    /\ Last(stdout).line = 2
    /\ Last(stdout).type = "error"
    /\ pc = "loop"

(***************************************************************************)
(* C15.  A detect request whose image payload cannot be decoded is          *)
(* answered by an error response, never by a result, and the detector is   *)
(* not invoked for it.  The code does not keep the first part: detect()    *)
(* calls load() before it decodes the payload, and on a machine without a  *)
(* models directory load() ends the process, which answers nothing.        *)
(***************************************************************************)
C15_UndecodableImageIsError ==
    \A k \in 1..Len(stdin_read) :
        IsDetectCall(stdin_read[k]) /\ ~Decodes(stdin_read[k].data.image) =>
            /\ ResponsesTo(k) # {}
            /\ \A i \in ResponsesTo(k) : stdout[i].type = "error"
            /\ trace.line = k => trace.yolo_calls = 0

(***************************************************************************)
(* Vocabulary of the suppressor's properties, from the words of the        *)
(* specification: the extended overlap of two boxes is the largest of      *)
(* their intersection over union and of the intersection over each box's   *)
(* area, each quotient with 1e-6 added to its denominator.                 *)
(***************************************************************************)
Width(a, b) ==
    LET right == IF a[3] < b[3] THEN a[3] ELSE b[3]
        left == IF a[1] > b[1] THEN a[1] ELSE b[1]
    IN  IF right > left THEN right - left ELSE 0

Height(a, b) ==
    LET bottom == IF a[4] < b[4] THEN a[4] ELSE b[4]
        top == IF a[2] > b[2] THEN a[2] ELSE b[2]
    IN  IF bottom > top THEN bottom - top ELSE 0

BoxArea(a) == (a[3] - a[1]) * (a[4] - a[2])

\* q/(d + 1e-6) > t/1000, for q >= 0 and d >= 0 integers and t <= 1000
Over(q, d, t) == t < 0 \/ q * 1000 > t * d

\* computeExtendedOverlap(a, b) > t, t in thousandths
OverlapExceeds(a, b, t) ==
    LET inter == Width(a, b) * Height(a, b)
    IN  \/ Over(inter, BoxArea(a) + BoxArea(b) - inter, t)
        \/ Over(inter, BoxArea(a), t)
        \/ Over(inter, BoxArea(b), t)

\* box i of the list has another box that overlaps it beyond t and is smaller
HasSmallerOverlapping(boxes, i, t) ==
    \E j \in 1..Len(boxes) :
        /\ j # i
        /\ OverlapExceeds(boxes[i].xyxy, boxes[j].xyxy, t)
        /\ BoxArea(boxes[i].xyxy) > BoxArea(boxes[j].xyxy)

\* the boxes of the list that the full pairwise rule keeps, in the list's order
RECURSIVE FullPairwiseFrom(_, _, _)
FullPairwiseFrom(boxes, i, t) ==
    IF i > Len(boxes) THEN <<>>
    ELSE (IF HasSmallerOverlapping(boxes, i, t) THEN <<>> ELSE <<boxes[i]>>)
         \o FullPairwiseFrom(boxes, i + 1, t)

\* the boxes of a list, as a set
Range(q) == {q[k] : k \in 1..Len(q)}

\* the suppressor has returned
Returned == pc \in {"returned", "again"}

\* the boxes the suppressor was called on, its threshold, the boxes it kept
Candidates == call.boxes
Threshold == call.iou_threshold
Kept == AsBoxes(returned.value)

(***************************************************************************)
(* C16.  For every candidate list and threshold the suppressor keeps box i  *)
(* if and only if no other box j overlaps it beyond the threshold and is   *)
(* strictly smaller: what it returns is the list the full pairwise rule    *)
(* keeps, in the same order, each entry with the box's coordinates,        *)
(* confidence and area.                                                    *)
(***************************************************************************)
C16_SuppressorEqualsFullPairwise ==
    Returned =>
        /\ Kept = FullPairwiseFrom(Candidates, 1, Threshold)
        /\ \A k \in 1..Len(returned.value) :
               returned.value[k].area = BoxArea(returned.value[k].xyxy)

\* three nested boxes: the inner loop left early for the first and for the
\* second, and only the innermost box is kept
C16_Witness ==
    /\ Returned
    /\ Len(Candidates) = 3
    /\ Threshold = 500
    /\ HasSmallerOverlapping(Candidates, 1, Threshold)
    /\ OverlapExceeds(Candidates[1].xyxy, Candidates[3].xyxy, Threshold)
    /\ HasSmallerOverlapping(Candidates, 2, Threshold)
    /\ Kept = <<Candidates[3]>>

(***************************************************************************)
(* C17.  A box that has, anywhere in the list, another box overlapping it   *)
(* beyond the threshold and strictly smaller is dropped; of a list of two  *)
(* such boxes, in either order, exactly the smaller one is returned.       *)
(***************************************************************************)
C17_LargerOfOverlappingPairDropped ==
    Returned =>
        \A i \in 1..Len(Candidates) :
            HasSmallerOverlapping(Candidates, i, Threshold) =>
                /\ Candidates[i] \notin Range(Kept)
                /\ Len(Candidates) = 2 => Kept = <<Candidates[3 - i]>>

\* the larger box came second and was dropped
C17_Witness ==
    /\ Returned
    /\ Len(Candidates) = 2
    /\ Threshold = 500
    /\ HasSmallerOverlapping(Candidates, 2, Threshold)
    /\ Kept = <<Candidates[1]>>

(***************************************************************************)
(* C18.  Of a list of two boxes of equal area that overlap beyond the       *)
(* threshold, two identical boxes included, both are returned.             *)
(***************************************************************************)
C18_EqualAreaPairRetained ==
    (/\ Returned
     /\ Len(Candidates) = 2
     /\ BoxArea(Candidates[1].xyxy) = BoxArea(Candidates[2].xyxy)
     /\ OverlapExceeds(Candidates[1].xyxy, Candidates[2].xyxy, Threshold))
        => Kept = Candidates

\* two different boxes of the same area, half of each inside the other
C18_Witness ==
    /\ Returned
    /\ Len(Candidates) = 2
    /\ Candidates[1] # Candidates[2]
    /\ BoxArea(Candidates[1].xyxy) = BoxArea(Candidates[2].xyxy)
    /\ BoxArea(Candidates[1].xyxy) > 0
    /\ OverlapExceeds(Candidates[1].xyxy, Candidates[2].xyxy, Threshold)
    /\ Kept = Candidates

(***************************************************************************)
(* C19.  A box whose overlap with every other box of the list is at most    *)
(* the threshold (equal to it included) is returned, whatever the areas;   *)
(* so both boxes of such a pair are.                                       *)
(***************************************************************************)
C19_BoxBelowThresholdRetained ==
    Returned =>
        \A i \in 1..Len(Candidates) :
            (\A j \in 1..Len(Candidates) :
                j # i => ~OverlapExceeds(Candidates[i].xyxy, Candidates[j].xyxy, Threshold))
            => /\ Candidates[i] \in Range(Kept)
               /\ Len(Candidates) = 2 => Kept = Candidates

\* two boxes of different areas whose intersection is exactly half of the
\* smaller one, at threshold 0.5
C19_Witness ==
    /\ Returned
    /\ Len(Candidates) = 2
    /\ Threshold = 500
    /\ BoxArea(Candidates[1].xyxy) > BoxArea(Candidates[2].xyxy)
    /\ 2 * Width(Candidates[1].xyxy, Candidates[2].xyxy)
          * Height(Candidates[1].xyxy, Candidates[2].xyxy)
        = BoxArea(Candidates[2].xyxy)
    /\ BoxArea(Candidates[2].xyxy) > 0
    /\ Kept = Candidates

(***************************************************************************)
(* C20.  Overlap suppression is idempotent: the suppressor called on the    *)
(* boxes it returned, with the same threshold, returns the same entries in *)
(* the same order.                                                         *)
(***************************************************************************)
C20_SuppressionIdempotent ==
    pc = "again" => returned.again = returned.value

\* the first call dropped a box and kept two, the second call kept both
C20_Witness ==
    /\ pc = "again"
    /\ Len(Candidates) = 3
    /\ Len(returned.value) = 2
    /\ returned.value[1] # returned.value[2]
    /\ OverlapExceeds(returned.value[1].xyxy, returned.value[2].xyxy, Threshold)
    /\ returned.again = returned.value

\* q is t with some of its elements left out: the elements of q are those of
\* t at strictly increasing positions
IsSubsequence(q, t) ==
    \E at \in [1..Len(q) -> 1..Len(t)] :
        /\ \A k \in 1..Len(q) : q[k] = t[at[k]]
        /\ \A k \in 1..(Len(q) - 1) : at[k] < at[k + 1]

(***************************************************************************)
(* C21.  What the suppressor returns is a subsequence of the list it was    *)
(* given: only boxes of that list, each at most once per occurrence, with  *)
(* coordinates and confidence unchanged, in the order of the list.         *)
(***************************************************************************)
C21_OutputIsSubsequenceOfInput ==
    Returned => IsSubsequence(Kept, Candidates)

\* of three different boxes the second was dropped: the first and the third
\* are returned, in that order
C21_Witness ==
    /\ Returned
    /\ Len(Candidates) = 3
    /\ Cardinality(Range(Candidates)) = 3
    /\ Kept = <<Candidates[1], Candidates[3]>>

(***************************************************************************)
(* C22.  The lifecycle only goes from Unloaded to Loaded: a call made on a  *)
(* loaded parser (load, detect or is_loaded) leaves it loaded, with the    *)
(* same detector, captioner, processor and device, and loads no backend;   *)
(* a load call on a loaded parser returns normally; is_loaded then says    *)
(* true.                                                                   *)
(***************************************************************************)
C22_LoadedStaysLoaded ==
    returned.before._loaded =>
        /\ parser._loaded
        /\ parser.yolo_model = returned.before.yolo_model
        /\ parser.caption_model = returned.before.caption_model
        /\ parser.caption_processor = returned.before.caption_processor
        /\ parser.device = returned.before.device
        /\ ~returned.load_ran
        /\ returned.function = "load" => returned.outcome = "return"
        /\ returned.function = "is_loaded" => returned.value

\* load was called on a parser that an earlier call had loaded
C22_Witness ==
    /\ returned.function = "load"
    /\ returned.before._loaded
    /\ returned.before.yolo_model = "YOLO"
    /\ returned.outcome = "return"
    /\ parser._loaded
    /\ call.n = 2

\* a detector box with x1 < x2 and y1 < y2 that lies inside the image; the
\* box is in half pixels, the image in pixels
ProperBoxInside(box, image) ==
    /\ box.xyxy[1] < box.xyxy[3]
    /\ box.xyxy[2] < box.xyxy[4]
    /\ 0 <= box.xyxy[1]
    /\ 0 <= box.xyxy[2]
    /\ box.xyxy[3] <= 2 * image.width
    /\ box.xyxy[4] <= 2 * image.height

(***************************************************************************)
(* C23.  When every box the detector returns has x1 < x2 and y1 < y2 and    *)
(* lies inside the image, every element of the result has bounds with      *)
(* w > 0 and h > 0 that lie within the image.  The code does not keep      *)
(* w > 0 and h > 0: w and h are int(x2 - x1) and int(y2 - y1), which is 0   *)
(* for a box less than one pixel wide or high.                             *)
(***************************************************************************)
C23_BoundsPositiveAndWithinImage ==
    \A i \in 1..Len(stdout) :
        LET image == stdin_read[stdout[i].line].data.image
        IN  (/\ stdout[i].type = "result"
             /\ trace.line = stdout[i].line
             /\ \A k \in 1..Len(trace.detected) :
                    ProperBoxInside(trace.detected[k], image))
            => \A k \in 1..Len(stdout[i].elements) :
                   LET bounds == stdout[i].elements[k].bounds
                   IN  /\ bounds.w > 0
                       /\ bounds.h > 0
                       /\ bounds.x >= 0
                       /\ bounds.y >= 0
                       /\ bounds.x + bounds.w <= image.width
                       /\ bounds.y + bounds.h <= image.height

\* the thresholds a request asks for, in thousandths: those of its options,
\* 0.3 and 0.5 for the ones it does not give
AskedConfidence(data) ==
    IF data.options.present /\ data.options.confidence_threshold # NoOption
    THEN data.options.confidence_threshold ELSE 300

AskedIou(data) ==
    IF data.options.present /\ data.options.iou_threshold # NoOption
    THEN data.options.iou_threshold ELSE 500

(***************************************************************************)
(* C24 as stated.  For a detect request that has its required fields,      *)
(* from_json keeps the request's id and image and takes each threshold     *)
(* from the options, or 0.3 and 0.5 for a threshold the options do not     *)
(* give or when there are no options; the detector is called with exactly  *)
(* these two values, and the boxes kept by overlap suppression are those   *)
(* the pairwise rule keeps at the request's iou threshold.                 *)
(***************************************************************************)
C24_ThresholdsFromOptionsOrDefaults ==
    \A k \in 1..Len(stdin_read) :
        LET data == stdin_read[k].data
        IN  IsDetectCall(stdin_read[k]) =>
                /\ ~from_json(data).raises
                /\ from_json(data).id = data.id
                /\ from_json(data).image = data.image
                /\ from_json(data).confidence_threshold = AskedConfidence(data)
                /\ from_json(data).iou_threshold = AskedIou(data)
                /\ trace.line = k /\ trace.yolo_calls > 0 =>
                       /\ trace.yolo_calls = 1
                       /\ trace.yolo_args = <<AskedConfidence(data), AskedIou(data)>>
                       /\ ~trace.yolo_raised =>
                              AsBoxes(trace.filtered)
                                = FullPairwiseFrom(trace.detected, 1, AskedIou(data))

\* the value under "options" is a JSON object, or there is none
ObjectOrNoOptions(data) == ~data.options.present \/ data.options.pytype = "dict"

(***************************************************************************)
(* C24 amended.  For a detect request that has its required fields and     *)
(* whose options are a JSON object or absent, from_json keeps the id and   *)
(* the image and takes each threshold from the options, or 0.3 and 0.5 for *)
(* a threshold the options do not give or when there are no options; the   *)
(* detector is called with exactly these two values, and the boxes kept by *)
(* overlap suppression are those the pairwise rule keeps at the request's  *)
(* iou threshold.  When the value under "options" is not an object (null,  *)
(* a list, ...), from_json raises: the request is answered by exactly one  *)
(* error with its id and the AttributeError's text, and neither the        *)
(* loader nor the detector runs for it.                                    *)
(***************************************************************************)
C24_ThresholdsFromObjectOptionsOrDefaults ==
    \A k \in 1..Len(stdin_read) :
        LET data == stdin_read[k].data
        IN  IsDetectCall(stdin_read[k]) =>
              IF ObjectOrNoOptions(data)
              THEN /\ ~from_json(data).raises
                   /\ from_json(data).id = data.id
                   /\ from_json(data).image = data.image
                   /\ from_json(data).confidence_threshold = AskedConfidence(data)
                   /\ from_json(data).iou_threshold = AskedIou(data)
                   /\ trace.line = k /\ trace.yolo_calls > 0 =>
                          /\ trace.yolo_calls = 1
                          /\ trace.yolo_args = <<AskedConfidence(data), AskedIou(data)>>
                          /\ ~trace.yolo_raised =>
                                 AsBoxes(trace.filtered)
                                   = FullPairwiseFrom(trace.detected, 1, AskedIou(data))
              ELSE /\ from_json(data).raises
                   /\ Cardinality(ResponsesTo(k)) = 1
                   /\ \A i \in ResponsesTo(k) :
                         /\ stdout[i].type = "error"
                         /\ stdout[i].id = data.id
                         /\ stdout[i].message
                              = "'" \o data.options.pytype \o "' object has no attribute 'get'"
                   /\ trace.line = k =>
                         /\ ~trace.load_ran
                         /\ trace.yolo_calls = 0
                         /\ parser = trace.before

\* the request gives iou_threshold 0.3 only in its options, and at 0.3 a box is
\* dropped that the default 0.5 would keep
C24_Witness ==
    /\ Len(stdin_read) = 1
    /\ stdin_read[1].data.options = Options(500, 300)
    /\ trace.line = 1
    /\ trace.yolo_args = <<500, 300>>
    /\ Len(trace.detected) = 2
    /\ Len(trace.filtered) = 1
    /\ FullPairwiseFrom(trace.detected, 1, 500) = trace.detected
    /\ stdout # <<>>
    /\ Last(stdout).type = "result"

(***************************************************************************)
(* C27.  A detect call that gets past detection is answered by one result   *)
(* with the request's id and the measured latency, whose elements match    *)
(* the boxes kept by the suppressor one to one and in order: element k has *)
(* the confidence of box k rounded to 3 decimals and bounds made from the  *)
(* coordinates of box k.                                                   *)
(***************************************************************************)
C27_ElementsMatchRetainedBoxes ==
    (trace.line > 0 /\ trace.yolo_calls = 1 /\ ~trace.yolo_raised) =>
        /\ Cardinality(ResponsesTo(trace.line)) = 1
        /\ \A i \in ResponsesTo(trace.line) :
               /\ stdout[i].type = "result"
               /\ stdout[i].id = stdin_read[trace.line].data.id
               /\ stdout[i].latency_ms = trace.elapsed_ms
               /\ Len(stdout[i].elements) = Len(trace.filtered)
               /\ \A k \in 1..Len(trace.filtered) :
                      LET box == trace.filtered[k]
                          element == stdout[i].elements[k]
                      IN  /\ 10 * element.confidence - 5 <= box.conf
                          /\ box.conf <= 10 * element.confidence + 5
                          /\ 2 * element.bounds.x <= box.xyxy[1]
                          /\ box.xyxy[1] < 2 * element.bounds.x + 2
                          /\ 2 * element.bounds.y <= box.xyxy[2]
                          /\ box.xyxy[2] < 2 * element.bounds.y + 2
                          /\ 2 * element.bounds.w <= box.xyxy[3] - box.xyxy[1]
                          /\ box.xyxy[3] - box.xyxy[1] < 2 * element.bounds.w + 2
                          /\ 2 * element.bounds.h <= box.xyxy[4] - box.xyxy[2]
                          /\ box.xyxy[4] - box.xyxy[2] < 2 * element.bounds.h + 2

\* three boxes were detected and two kept: the result has their two elements,
\* of different confidences, and a latency of 42 ms
C27_Witness ==
    /\ trace.line = 1
    /\ Len(trace.detected) = 3
    /\ Len(trace.filtered) = 2
    /\ stdout # <<>>
    /\ Last(stdout).type = "result"
    /\ Last(stdout).latency_ms = 42
    /\ Len(Last(stdout).elements) = 2
    /\ Last(stdout).elements[1].confidence = 457
    /\ Last(stdout).elements[2].confidence = 31

(***************************************************************************)
(* C25.  When every backend call returns (the model assets are not          *)
(* missing, so that load() does not end the process), the process stops    *)
(* only by finding end of input, and when it has stopped every non-blank   *)
(* line it took has its response.  The code does not keep this: a line     *)
(* that holds a JSON value other than an object ends the process without   *)
(* a response (the AttributeError of C1).                                  *)
(***************************************************************************)
C25_StopsAtEndOfInputAllAnswered ==
    (assets # "missing" /\ pc \notin {"start", "loop"}) =>
        /\ pc = "eof"
        /\ \A k \in 1..Len(stdin_read) :
               stdin_read[k].kind # "blank" => Cardinality(ResponsesTo(k)) = 1

(***************************************************************************)
(* C26.  When an exception is raised while a line is dispatched, exactly    *)
(* one response is written for the line: an error response with the        *)
(* request's id ("unknown" when it has none) whose message is the           *)
(* exception's string.  The code does not keep this for the AttributeError *)
(* raised by data.get on a JSON value that is not an object, nor for the   *)
(* SystemExit raised by load() when the models directory is missing:       *)
(* neither is caught and no response is written.                           *)
(***************************************************************************)
C26_DispatchExceptionIsOneError ==
    trace.exception # None =>
        /\ Cardinality(ResponsesTo(trace.line)) = 1
        /\ \A i \in ResponsesTo(trace.line) :
               /\ stdout[i].type = "error"
               /\ stdout[i].message = trace.exception
               /\ LET data == stdin_read[trace.line].data
                  IN  stdout[i].id = IF data.id = Absent THEN "unknown" ELSE data.id

\* two quotients q/(d + 1e-6), given as <<q, d>> with q, d >= 0 integers (far
\* below 10^6): r = s, and r >= s
SameQuotient(r, s) == r[1] = s[1] /\ (r[1] = 0 \/ r[2] = s[2])

QuotientAtLeast(r, s) ==
    \/ r[1] * s[2] > s[1] * r[2]
    \/ r[1] * s[2] = s[1] * r[2] /\ r[1] >= s[1]

(***************************************************************************)
(* C28.  The extended overlap of a and b is the largest of IoU(a, b),       *)
(* intersection/area(a) and intersection/area(b), each with 1e-6 added to  *)
(* its denominator: it is one of the three and at least each of them.  It  *)
(* is the same for (b, a), it is at least IoU(a, b), and it is 0 for boxes *)
(* that do not intersect.                                                  *)
(***************************************************************************)
C28_ExtendedOverlapIsSymmetricMax ==
    (pc \in {"returned", "again"} /\ call.function = "_compute_iou") =>
        LET a == call.box1
            b == call.box2
            inter == Width(a, b) * Height(a, b)
            iou == <<inter, BoxArea(a) + BoxArea(b) - inter>>
            ratio_a == <<inter, BoxArea(a)>>
            ratio_b == <<inter, BoxArea(b)>>
        IN  /\ \/ SameQuotient(returned.value, iou)
               \/ SameQuotient(returned.value, ratio_a)
               \/ SameQuotient(returned.value, ratio_b)
            /\ QuotientAtLeast(returned.value, iou)
            /\ QuotientAtLeast(returned.value, ratio_a)
            /\ QuotientAtLeast(returned.value, ratio_b)
            /\ inter = 0 => returned.value[1] = 0
            /\ pc = "again" => SameQuotient(returned.again, returned.value)

\* the second box is the smaller one and lies partly in the first: the value is
\* the intersection over the second box's area, above the IoU, in both orders
C28_Witness ==
    /\ pc = "again"
    /\ call.function = "_compute_iou"
    /\ BoxArea(call.box2) < BoxArea(call.box1)
    /\ Width(call.box1, call.box2) * Height(call.box1, call.box2) > 0
    /\ Width(call.box1, call.box2) * Height(call.box1, call.box2) < BoxArea(call.box2)
    /\ SameQuotient(returned.value,
                    <<Width(call.box1, call.box2) * Height(call.box1, call.box2),
                      BoxArea(call.box2)>>)
    /\ SameQuotient(returned.again, returned.value)

\* the positions of t that hold no whitespace
Inked(t) == {i \in 1..Len(t) : t[i] \notin Whitespace}

\* the first whitespace-delimited token of t, <<>> when t has none
FirstToken(t) ==
    IF Inked(t) = {} THEN <<>>
    ELSE LET i == CHOOSE m \in Inked(t) : \A n \in Inked(t) : m <= n
             j == CHOOSE m \in i..Len(t) :
                      /\ i..m \subseteq Inked(t)
                      /\ m + 1 \notin Inked(t)
         IN  SubSeq(t, i, j)

\* t without its leading and trailing whitespace
Trimmed(t) ==
    IF Inked(t) = {} THEN <<>>
    ELSE LET i == CHOOSE m \in Inked(t) : \A n \in Inked(t) : m <= n
             j == CHOOSE m \in Inked(t) : \A n \in Inked(t) : m >= n
         IN  SubSeq(t, i, j)

\* the label the claim gives to a caption text
LabelOf(t) == IF FirstToken(t) = <<>> THEN "icon" ELSE Join(LowerText(FirstToken(t)))

\* a crop has been captioned with a text, and its element built
Captioned ==
    /\ pc = "appended"
    /\ call.function = "_caption_crop"
    /\ ~call.outcome.raises

(***************************************************************************)
(* C29 as stated.  For every caption text the label is its first           *)
(* whitespace-delimited token lowercased, or "icon" when the text is empty *)
(* or whitespace only, and the description is the full caption text; no    *)
(* element has an empty label.                                             *)
(***************************************************************************)
C29_DescriptionIsFullCaption ==
    /\ Captioned =>
          /\ returned.element.label = LabelOf(call.outcome.text)
          /\ returned.element.description = Join(call.outcome.text)
    /\ (pc = "appended" /\ call.function = "_caption_crop") =>
          returned.element.label # ""

(***************************************************************************)
(* C29 amended.  The label is as stated, no element has an empty label,    *)
(* and the description is the caption text without its leading and         *)
(* trailing whitespace.                                                    *)
(***************************************************************************)
C29_DescriptionIsTrimmedCaption ==
    /\ Captioned =>
          /\ returned.value = <<LabelOf(call.outcome.text),
                                Join(Trimmed(call.outcome.text))>>
          /\ returned.element.label = LabelOf(call.outcome.text)
          /\ returned.element.description = Join(Trimmed(call.outcome.text))
    /\ (pc = "appended" /\ call.function = "_caption_crop") =>
          returned.element.label # ""

\* the caption " O k": the label is "o", the description "O k"
C29_Witness ==
    /\ Captioned
    /\ call.outcome.text = <<" ", "O", " ", "k">>
    /\ returned.element.label = "o"
    /\ returned.element.description = "O k"

\* the pongs among the responses out
Pongs(out) == {i \in 1..Len(out) : out[i].type = "pong"}

(***************************************************************************)
(* C30.  Once main() has selected the device, no step changes it or the    *)
(* parser's device, whether the backends are loaded or not, and every pong *)
(* written so far reports that one device string, which is the parser's    *)
(* device.                                                                 *)
(***************************************************************************)
C30_OneDeviceForTheRun ==
    [][ /\ pc # "start" => (device' = device /\ parser'.device = parser.device)
        /\ \A i \in Pongs(stdout') :
              /\ stdout'[i].device = parser'.device
              /\ stdout'[i].device = device'
        /\ \A i \in Pongs(stdout'), j \in Pongs(stdout') :
              stdout'[i].device = stdout'[j].device ]_vars

\* a detect request has loaded the backends and the ping after it is answered
\* with the accelerator the parser was constructed on
C30_Witness ==
    /\ Len(stdout) = 2
    /\ stdout[1].type = "result"
    /\ stdout[2].type = "pong"
    /\ stdout[2].models_loaded
    /\ parser._loaded
    /\ stdout[2].device = "cuda"
    /\ parser.device = "cuda"

\* load() ran for the line the server handled last and did not get to its end
LoadFailed ==
    /\ trace.line > 0
    /\ trace.load_ran
    /\ ~parser._loaded

(***************************************************************************)
(* C31.  A parser that says it is loaded has its detector, its captioner   *)
(* and its caption processor set.  When load() raises part-way the parser  *)
(* stays not loaded and the request that ran it is answered by exactly one *)
(* error response, and every detect call made on a parser that is not      *)
(* loaded runs load() again.  The code does not keep the second part:      *)
(* without a models directory load() leaves through sys.exit(1), which     *)
(* ends the process and answers nothing.                                   *)
(***************************************************************************)
C31_LoadedMeansAllSetFailedLoadIsError ==
    /\ parser._loaded =>
          /\ parser.yolo_model # None
          /\ parser.caption_model # None
          /\ parser.caption_processor # None
    /\ LoadFailed =>
          /\ Cardinality(ResponsesTo(trace.line)) = 1
          /\ \A i \in ResponsesTo(trace.line) :
                /\ stdout[i].type = "error"
                /\ stdout[i].id = stdin_read[trace.line].data.id
          /\ pc \in {"loop", "eof"}
    /\ (trace.line > 0 /\ IsDetectCall(stdin_read[trace.line])
          /\ ~trace.before._loaded) => trace.load_ran

\* the coordinates of the boxes of q, in order
Coordinates(q) == [k \in 1..Len(q) |-> q[k].xyxy]

\* how many boxes of q have the coordinates xyxy
Occurrences(q, xyxy) == Cardinality({k \in 1..Len(q) : q[k].xyxy = xyxy})

\* box k has the least area among the candidates
MinimalArea(k) ==
    \A m \in 1..Len(call.boxes) :
        BoxArea(call.boxes[k].xyxy) <= BoxArea(call.boxes[m].xyxy)

(***************************************************************************)
(* C32.  Called on a candidate list that is not empty, with any threshold, *)
(* the suppressor returns a list that is not empty: every candidate of     *)
(* minimal area is in it, as many times as it is among the candidates.     *)
(* Called on the same boxes with other confidences it keeps the boxes of   *)
(* the same coordinates in the same order, each with its new confidence.   *)
(***************************************************************************)
C32_MinimalBoxesKeptWhateverTheConfidence ==
    (pc \in {"returned", "rescored"} /\ call.function = "_remove_overlap"
        /\ call.boxes # <<>>) =>
        /\ returned.value # <<>>
        /\ \A k \in 1..Len(call.boxes) :
              MinimalArea(k) =>
                  Occurrences(returned.value, call.boxes[k].xyxy)
                      = Occurrences(call.boxes, call.boxes[k].xyxy)
        /\ pc = "rescored" =>
              /\ Coordinates(returned.rescored) = Coordinates(returned.value)
              /\ \A i \in 1..Len(returned.rescored) :
                    returned.rescored[i].conf \in Confidences

\* of two overlapping boxes the larger, more confident one was dropped; with
\* the confidences exchanged between high and low the same box is kept
C32_Witness ==
    /\ pc = "rescored"
    /\ Len(call.boxes) = 2
    /\ BoxArea(call.boxes[1].xyxy) > BoxArea(call.boxes[2].xyxy)
    /\ call.boxes[1].conf > call.boxes[2].conf
    /\ returned.confs = <<100, 9999>>
    /\ Len(returned.value) = 1
    /\ returned.value[1].xyxy = call.boxes[2].xyxy
    /\ Len(returned.rescored) = 1
    /\ returned.rescored[1].xyxy = call.boxes[2].xyxy
    /\ returned.rescored[1].conf = 9999

====
